---- MODULE Spec2Model ----
(***************************************************************************)
(* A model of the scan algebra of Scans/Scans.py (SimpleScan, SumScan,     *)
(* ProductScan, ParallelScan, ForeverScan), of the generators behind their *)
(* __iter__ methods, and of the execution loop Scan.plot that folds the    *)
(* detector's measurements by position.                                    *)
(*                                                                         *)
(* A scan expression is a tree of records.  Iterating a scan is modelled   *)
(* by the sequence of tokens its generator produces: the hardware calls    *)
(* (move, wait, read) in the order the nested generators issue them, and   *)
(* the records yielded to the consumer of the outermost generator.         *)
(*                                                                         *)
(* Further specifications share the module: SpecPoints, the call           *)
(* scan(motion, **kwargs) of Util.make_scan over Util.get_points, whose    *)
(* scan is then iterated; SpecMonoid, the + and += of Monoid.py on a       *)
(* running total; SpecFit, Scan.fit over the fits of Fit.py; SpecCommands, *)
(* ascan and dscan of Spec.py; SpecDae, the DAE periods of                 *)
(* Detector.DaePeriods and Larmor.pol_measure; SpecPlot and SpecPlotLive,  *)
(* the plotting process of multiplot.py, the latter with the fairness of   *)
(* its scheduling.  Floats are exact fractions.                            *)
(***************************************************************************)
EXTENDS Integers, Sequences, FiniteSets, TLC

\* Longest list of points of a SimpleScan.
MaxLen == 2
\* Most operators (+, *, &, reverse, and_back, forever, map) applied to build
\* the scan expression that is then run.
MaxOps == 2
\* Scans built with at most this many operators are also run.
MaxRunOps == 1
\* Records taken from the iteration before the consumer stops pulling (a
\* forever scan never ends on its own).
MaxYield == 6

\* The blocks of the mock instrument (Mocks.instrument).
Motors == {"theta", "two_theta"}
\* What a motor reports when read, relative to the position it was sent to:
\* 0 is the mock instrument (cget returns what cset stored), 2 a motor whose
\* read-back differs from its set point by a fixed amount.
Calibs == {0, 2}
\* The functions given to map.
Funcs == {"inc", "double"}
\* What the detector function returns: a bare float, or a Monoid.
DetectorKinds == {"float", "Average", "Sum"}

\* The defaults object a scan is built against (make_scan's argument).
DefaultsObj == "Defaults()"

Min(a, b) == IF a < b THEN a ELSE b

-----------------------------------------------------------------------------
(* Motion *)

\* Motion.title of the BlockMotion of a block: the block's name.
Title(motor) == motor

-----------------------------------------------------------------------------
(* Position records: OrderedDict, a sequence of key/value items *)

Item(key, val) == [k |-> key, v |-> val]

HasKey(d, key) == \E i \in DOMAIN d : d[i].k = key

\* d[key] = val on an OrderedDict: an existing key keeps its place.
SetItem(d, key, val) ==
    IF HasKey(d, key)
    THEN [i \in DOMAIN d |-> IF d[i].k = key THEN Item(key, val) ELSE d[i]]
    ELSE Append(d, Item(key, val))

RECURSIVE DictUpdate(_, _)
DictUpdate(d, y) ==
    IF y = <<>> THEN d
    ELSE DictUpdate(SetItem(d, Head(y).k, Head(y).v), Tail(y))

merge_dicts(x, y) == DictUpdate(x, y)

-----------------------------------------------------------------------------
(* Scan expressions *)

\* SimpleScan.__init__; oneshot marks values that are a Python 3 map object
\* (an iterator: no len, no slicing, consumed by its first iteration).
SimpleScan(action, values, defaults) ==
    [kind |-> "Simple", action |-> action, values |-> values,
     oneshot |-> FALSE, name |-> Title(action), defaults |-> defaults]

SumScan(first, second) ==
    [kind |-> "Sum", first |-> first, second |-> second,
     defaults |-> first.defaults]

ProductScan(outer, inner) ==
    [kind |-> "Product", outer |-> outer, inner |-> inner,
     defaults |-> outer.defaults]

ParallelScan(first, second) ==
    [kind |-> "Parallel", first |-> first, second |-> second,
     defaults |-> first.defaults]

ForeverScan(scan) ==
    [kind |-> "Forever", scan |-> scan, defaults |-> scan.defaults]

\* What an operation that raises evaluates to.
Raised(err) == [kind |-> "Error", err |-> err]

IsError(s) == s.kind = "Error"

RECURSIVE ReverseSeq(_)
ReverseSeq(s) == IF s = <<>> THEN <<>> ELSE Append(ReverseSeq(Tail(s)), Head(s))

\* len(scan): [err, val]; err is "none" when a number is returned.
LenOk(n) == [err |-> "none", val |-> n]
LenErr(e) == [err |-> e, val |-> 0]

SimpleLen(s) == IF s.oneshot THEN LenErr("TypeError") ELSE LenOk(Len(s.values))

SumLen(a, b) ==
    IF a.err # "none" THEN a ELSE IF b.err # "none" THEN b
    ELSE LenOk(a.val + b.val)

ProductLen(a, b) ==
    IF a.err # "none" THEN a ELSE IF b.err # "none" THEN b
    ELSE LenOk(a.val * b.val)

ParallelLenFirst(a, b) == LenOk(a.val)

ParallelLen(a, b) ==
    IF a.err # "none" THEN a ELSE IF b.err # "none" THEN b
    ELSE LenOk(Min(a.val, b.val))

ForeverLenOfScan(s) == LenOk(0)

ForeverLen(s) == LenErr("RuntimeError")

RECURSIVE ScanLen(_)
ScanLen(s) ==
    CASE s.kind = "Simple" -> SimpleLen(s)
      [] s.kind = "Sum" -> SumLen(ScanLen(s.first), ScanLen(s.second))
      [] s.kind = "Product" -> ProductLen(ScanLen(s.outer), ScanLen(s.inner))
      [] s.kind = "Parallel" -> ParallelLen(ScanLen(s.first), ScanLen(s.second))
      [] s.kind = "Forever" -> ForeverLen(s)

-----------------------------------------------------------------------------
(* reverse, map, and_back *)

SimpleReverseDropLast(s) ==
    IF s.oneshot THEN Raised("TypeError")
    ELSE SimpleScan(s.action, SubSeq(s.values, 1, Len(s.values) - 1), s.defaults)

\* SimpleScan.reverse: values[::-1]; a map object cannot be sliced.
SimpleReverse(s) ==
    IF s.oneshot THEN Raised("TypeError")
    ELSE SimpleScan(s.action, ReverseSeq(s.values), s.defaults)

\* The constructor calls of the three binary reverse/map methods: the
\* arguments are evaluated left to right and the first that raises wins.
Build2(kind, x, y) ==
    IF IsError(x) THEN x ELSE IF IsError(y) THEN y
    ELSE CASE kind = "Sum" -> SumScan(x, y)
           [] kind = "Product" -> ProductScan(x, y)
           [] kind = "Parallel" -> ParallelScan(x, y)

Build1(x) == IF IsError(x) THEN x ELSE ForeverScan(x)

RECURSIVE Reverse(_)
Reverse(s) ==
    CASE s.kind = "Simple" -> SimpleReverse(s)
      [] s.kind = "Sum" -> Build2("Sum", Reverse(s.second), Reverse(s.first))
      [] s.kind = "Product" -> Build2("Product", Reverse(s.outer), Reverse(s.inner))
      [] s.kind = "Parallel" -> Build2("Parallel", Reverse(s.first), Reverse(s.second))
      [] s.kind = "Forever" -> Build1(Reverse(s.scan))

\* The function handed to map, applied to one position.
Apply(f, x) == IF f = "inc" THEN x + 1 ELSE 2 * x

MapSeq(f, vs) == [i \in DOMAIN vs |-> Apply(f, vs[i])]

\* SimpleScan.map: SimpleScan(self.action, map(func, self.values), self.name).
\* The third argument of the constructor is defaults, and it is given
\* self.name.  lazy: map() returned an iterator (Python 3), not a list.
SimpleMap(s, f, lazy) ==
    [kind |-> "Simple", action |-> s.action, values |-> MapSeq(f, s.values),
     oneshot |-> lazy, name |-> Title(s.action), defaults |-> s.name]

RECURSIVE Map(_, _, _)
Map(s, f, lazy) ==
    CASE s.kind = "Simple" -> SimpleMap(s, f, lazy)
      [] s.kind = "Sum" -> Build2("Sum", Map(s.first, f, lazy), Map(s.second, f, lazy))
      [] s.kind = "Product" -> Build2("Product", Map(s.outer, f, lazy), Map(s.inner, f, lazy))
      [] s.kind = "Parallel" -> Build2("Parallel", Map(s.first, f, lazy), Map(s.second, f, lazy))
      [] s.kind = "Forever" -> Build1(Map(s.scan, f, lazy))

AndBackForwardTwice(s) == Build2("Sum", s, s)

\* Scan.and_back: self + self.reverse.
AndBack(s) == Build2("Sum", s, Reverse(s))

RECURSIVE HasOneshot(_)
HasOneshot(s) ==
    CASE s.kind = "Simple" -> s.oneshot
      [] s.kind = "Sum" -> HasOneshot(s.first) \/ HasOneshot(s.second)
      [] s.kind = "Product" -> HasOneshot(s.outer) \/ HasOneshot(s.inner)
      [] s.kind = "Parallel" -> HasOneshot(s.first) \/ HasOneshot(s.second)
      [] s.kind = "Forever" -> HasOneshot(s.scan)

RECURSIVE IsFinite(_)
IsFinite(s) ==
    CASE s.kind = "Simple" -> TRUE
      [] s.kind = "Sum" -> IsFinite(s.first) /\ IsFinite(s.second)
      [] s.kind = "Product" -> IsFinite(s.outer) /\ IsFinite(s.inner)
      [] s.kind = "Parallel" -> IsFinite(s.first) /\ IsFinite(s.second)
      [] s.kind = "Forever" -> FALSE

-----------------------------------------------------------------------------
(* Iteration: the tokens a scan's generator produces *)

Move(motor, point) == [t |-> "move", motor |-> motor, point |-> point]
WaitForMove == [t |-> "wait"]
Read(motor) == [t |-> "read", motor |-> motor]
Yield(rec) == [t |-> "yield", rec |-> rec]

\* Motion.__call__() after the motor was sent to setpoint: what the getter
\* reports (cget's value), for a motor of calibration c.
Reported(setpoint, c) == setpoint + c

SimpleStepNoWait(s, i, c) ==
    << Move(s.action, s.values[i]), Read(s.action),
       Yield(<< Item(s.name, Reported(s.values[i], c)) >>) >>

\* One pass of the loop of SimpleScan.__iter__:
\*   self.action(i); g.waitfor_move(); dic[self.name] = self.action(); yield dic
SimpleStep(s, i, c) ==
    << Move(s.action, s.values[i]), WaitForMove, Read(s.action),
       Yield(<< Item(s.name, Reported(s.values[i], c)) >>) >>

RECURSIVE SimpleTokens(_, _, _)
SimpleTokens(s, i, c) ==
    IF i > Len(s.values) THEN <<>>
    ELSE SimpleStep(s, i, c) \o SimpleTokens(s, i + 1, c)

\* for i in self.first: yield i;  for i in self.second: yield i
SumTokens(first, second) == first \o second

\* The inner generator run once under the outer record rec:
\*   for j in self.inner: yield merge_dicts(i, j)
InnerPass(rec, inner) ==
    [k \in DOMAIN inner |->
        IF inner[k].t = "yield" THEN Yield(merge_dicts(rec, inner[k].rec))
        ELSE inner[k]]

RECURSIVE ProductTokensOuterFast(_, _, _)
ProductTokensOuterFast(outer, inner, again) ==
    IF inner = <<>> THEN <<>>
    ELSE IF Head(inner).t = "yield"
         THEN [k \in DOMAIN outer |->
                 IF outer[k].t = "yield"
                 THEN Yield(merge_dicts(outer[k].rec, Head(inner).rec))
                 ELSE outer[k]]
              \o ProductTokensOuterFast(outer, Tail(inner), again)
         ELSE <<Head(inner)>> \o ProductTokensOuterFast(outer, Tail(inner), again)

\* for i in self.outer: for j in self.inner: yield merge_dicts(i, j)
\* inner is iterated afresh for every record of outer; again is what its
\* second and later iterations produce (the same, unless self.inner holds a
\* map object, which its first iteration has used up).
RECURSIVE ProductTokens(_, _, _)
ProductTokens(outer, inner, again) ==
    IF outer = <<>> THEN <<>>
    ELSE IF Head(outer).t = "yield"
         THEN InnerPass(Head(outer).rec, inner)
              \o ProductTokens(Tail(outer), again, again)
         ELSE <<Head(outer)>> \o ProductTokens(Tail(outer), inner, again)

\* The places of the yields in a token sequence.
YieldAt(toks) == {k \in DOMAIN toks : toks[k].t = "yield"}

NumYields(toks) == Cardinality(YieldAt(toks))

\* The place of the i-th yield (0 for i = 0).
NthYield(toks, i) ==
    IF i = 0 THEN 0
    ELSE CHOOSE k \in YieldAt(toks) :
            Cardinality({j \in YieldAt(toks) : j <= k}) = i

\* What the generator executes between its (i-1)-th and its i-th yield.
PreOf(toks, i) == SubSeq(toks, NthYield(toks, i - 1) + 1, NthYield(toks, i) - 1)

RecOf(toks, i) == toks[NthYield(toks, i)].rec

\* What the generator executes after its last yield, before it stops.
TailOf(toks) == SubSeq(toks, NthYield(toks, NumYields(toks)) + 1, Len(toks))

\* for x, y in zip(self.first, self.second): yield merge_dicts(x, y)
\* zip asks first for its next record, then second, and stops at the first
\* of the two that has none: when second runs out, first has already been
\* advanced once more.
RECURSIVE Zip(_, _, _)
Zip(a, b, i) ==
    IF i > NumYields(a) THEN TailOf(a)
    ELSE IF i > NumYields(b) THEN PreOf(a, i) \o TailOf(b)
    ELSE PreOf(a, i) \o PreOf(b, i)
         \o << Yield(merge_dicts(RecOf(a, i), RecOf(b, i))) >>
         \o Zip(a, b, i + 1)

ParallelTokens(first, second) == Zip(first, second, 1)

\* A scan after one full iteration: its map objects are used up.
RECURSIVE Exhausted(_)
Exhausted(s) ==
    CASE s.kind = "Simple" -> IF s.oneshot THEN [s EXCEPT !.values = <<>>] ELSE s
      [] s.kind = "Sum" -> SumScan(Exhausted(s.first), Exhausted(s.second))
      [] s.kind = "Product" -> ProductScan(Exhausted(s.outer), Exhausted(s.inner))
      [] s.kind = "Parallel" -> ParallelScan(Exhausted(s.first), Exhausted(s.second))
      [] s.kind = "Forever" -> ForeverScan(Exhausted(s.scan))

\* One full iteration of a scan (for a ForeverScan: one pass of its
\* while True loop).
RECURSIVE Tokens(_, _)
Tokens(s, c) ==
    CASE s.kind = "Simple" -> SimpleTokens(s, 1, c)
      [] s.kind = "Sum" -> SumTokens(Tokens(s.first, c), Tokens(s.second, c))
      [] s.kind = "Product" ->
            ProductTokens(Tokens(s.outer, c), Tokens(s.inner, c),
                          Tokens(Exhausted(s.inner), c))
      [] s.kind = "Parallel" -> ParallelTokens(Tokens(s.first, c), Tokens(s.second, c))
      [] s.kind = "Forever" -> Tokens(s.scan, c)

\* The records a full iteration yields, in order.
Records(s, c) ==
    LET toks == Tokens(s, c)
    IN  [i \in 1..NumYields(toks) |-> RecOf(toks, i)]

-----------------------------------------------------------------------------
(* Monoids *)

Average(x, count) == [type |-> "Average", total |-> x, count |-> count]
Sum(x) == [type |-> "Sum", total |-> x]

\* Average.__add__, Sum.__add__ of two monoids of one type.
Add(m, y) ==
    IF m.type = "Average" THEN Average(m.total + y.total, m.count + y.count)
    ELSE Sum(m.total + y.total)

\* Average.__iadd__, Sum.__iadd__: the fields are updated in place.
\* MonoidList.__iadd__: for value, update in zip(self.values, y): value += update
RECURSIVE IAdd(_, _)
IAdd(m, y) ==
    IF m.type = "MonoidList"
    THEN [m EXCEPT !.values =
             [i \in DOMAIN @ |-> IF i <= Len(y.values) THEN IAdd(@[i], y.values[i])
                                 ELSE @[i]]]
    ELSE IF m.type = "Average"
    THEN [m EXCEPT !.total = @ + y.total, !.count = @ + y.count]
    ELSE [m EXCEPT !.total = @ + y.total]

RECURSIVE Gcd(_, _)
Gcd(a, b) == IF b = 0 THEN a ELSE Gcd(b, a % b)

\* str(monoid): the text of total/count (a quotient, written here as the
\* reduced fraction), of total for a Sum, nan for an empty Average; of a
\* MonoidList the list of the texts of its values.
RECURSIVE MonoidStr(_)
MonoidStr(m) ==
    IF m.type = "MonoidList" THEN [i \in DOMAIN m.values |-> MonoidStr(m.values[i])]
    ELSE IF m.type = "Sum" THEN <<m.total, 1>>
    ELSE IF m.count = 0 THEN <<"nan">>
    ELSE <<m.total \div Gcd(m.total, m.count), m.count \div Gcd(m.total, m.count)>>

-----------------------------------------------------------------------------
(* The detector *)

\* The n-th count the detector hardware delivers.  Every call delivers a
\* count of its own, so that a total tells which calls it is made of.
Signal(n) == 2 ^ (n - 1)

\* The channels of a multi-channel detector.
Channels == 3

\* The detector function's n-th return value: a bare float, an
\* Average(counts, count=monitor), a Sum, or a MonoidList with a monoid for
\* each channel.
DetectorValue(kind, n) ==
    CASE kind = "float" -> [type |-> "float", val |-> Signal(n)]
      [] kind = "Average" -> Average(Signal(n), 2)
      [] kind = "Sum" -> Sum(Signal(n))
      [] kind = "MonoidList" ->
            [type |-> "MonoidList",
             values |-> [i \in 1..Channels |-> Average(Signal(n) + i, 2)]]

NoValue == [type |-> "None"]

\* if isinstance(value, float): value = Average(value)
Promote(value) == IF value.type = "float" THEN Average(value.val, 1) ELSE value

Range(seq) == {seq[i] : i \in DOMAIN seq}

\* list.index: the first place of an element.
Index(seq, e) == CHOOSE i \in DOMAIN seq : seq[i] = e /\ \A j \in 1..(i - 1) : seq[j] # e

AccumulateAlwaysAppend(axs, ays, position, value) ==
    [xs |-> Append(axs, position), ys |-> Append(ays, value)]

\* Scan.plot:  if position in xs: ys[xs.index(position)] += value
\*             else: xs.append(position); ys.append(value)
Accumulate(axs, ays, position, value) ==
    IF position \in Range(axs)
    THEN [xs |-> axs,
          ys |-> [ays EXCEPT ![Index(axs, position)] = IAdd(@, value)]]
    ELSE [xs |-> Append(axs, position), ys |-> Append(ays, value)]

-----------------------------------------------------------------------------
(* Point generation: Util.get_points *)

\* A keyword argument: <<>> when it is not given (None), <<v>> when it is.
None == <<>>
Some(v) == <<v>>
Given(a) == a # None
Val(a) == a[1]
\* Python's truth of an optional number: given and not 0.
Truthy(a) == Given(a) /\ Val(a) # 0

Abs(n) == IF n < 0 THEN -n ELSE n

\* A float, as the fraction <<numerator, denominator>> in lowest terms with
\* a positive denominator.
Rat(n, d) ==
    LET g == Gcd(Abs(n), Abs(d))
        sgn == IF d < 0 THEN -1 ELSE 1
    IN  <<(sgn * n) \div g, Abs(d) \div g>>

Whole(n) == <<n, 1>>

\* np.ceil(a / float(b)), b not 0.
np_ceil(a, bb) ==
    LET n == IF bb < 0 THEN -a ELSE a
        d == Abs(bb)
    IN  -((-n) \div d)

PointsOk(seq) == [err |-> "none", val |-> seq]
PointsErr(e) == [err |-> e, val |-> <<>>]

\* num points from start towards stop, stop left out.
np_linspaceNoEndpoint(start, stop, num) ==
    IF num < 0 THEN PointsErr("ValueError")
    ELSE PointsOk([i \in 1..num |-> Rat(start * num + (i - 1) * (stop - start), num)])

\* np.linspace(start, stop, num): num points from start to stop, both
\* included (start alone when num is 1); a negative num is refused.
np_linspace(start, stop, num) ==
    IF num < 0 THEN PointsErr("ValueError")
    ELSE IF num = 1 THEN PointsOk(<<Whole(start)>>)
    ELSE PointsOk([i \in 1..num |->
                      Rat(start * (num - 1) + (i - 1) * (stop - start), num - 1)])

\* np.arange(start, stop, step): start, start + step, ... short of stop.
np_arange(start, stop, step) ==
    LET n == np_ceil(stop - start, step)
    IN  PointsOk([i \in 1..(IF n < 0 THEN 0 ELSE n) |-> Whole(start + (i - 1) * step)])


UnableReturnsNoPoints == PointsOk(<<>>)

\* The end of get_points for an unusable set of options:
\* raise RuntimeError("Unable to build a scan with that set of options.")
Unable == PointsErr("RuntimeError")

\* get_points(current, **kw).  strict tells the numpy of the build: a numpy
\* from 1.18 on refuses a float as the number of samples of linspace (the
\* steps + 1 of the stride form is one, np.ceil returning a float), an
\* earlier one takes it.
get_points(current, kw, strict) ==
    IF Given(kw.exact) THEN PointsOk([i \in DOMAIN Val(kw.exact) |-> Whole(Val(kw.exact)[i])])
    ELSE
    LET count == IF Truthy(kw.gaps) THEN Some(Val(kw.gaps) + 1) ELSE kw.count
        start == IF Given(kw.before) THEN Some(current + Val(kw.before)) ELSE kw.start
        stop == IF Given(kw.after) THEN Some(current + Val(kw.after)) ELSE kw.stop
    IN  IF Given(start) /\ Given(stop)
        THEN IF Truthy(kw.stride)
             THEN LET steps == np_ceil(Val(stop) - Val(start), Val(kw.stride))
                  IN  IF strict THEN PointsErr("TypeError")
                      ELSE np_linspace(Val(start), Val(stop), steps + 1)
             ELSE IF Truthy(count)
             THEN np_linspace(Val(start), Val(stop), Val(count))
             ELSE IF Truthy(kw.step)
             THEN np_arange(Val(start), Val(stop), Val(kw.step))
             ELSE Unable
        ELSE IF Given(start) /\ Truthy(count) /\ (Truthy(kw.stride) \/ Truthy(kw.step))
        THEN LET step == IF Truthy(kw.stride) THEN Val(kw.stride) ELSE Val(kw.step)
             IN  np_linspace(Val(start), Val(start) + (Val(count) - 1) * step,
                             Val(count))
        ELSE Unable

-----------------------------------------------------------------------------
(* Monoid arithmetic: Python's + and += on the classes of Monoid.py *)

\* A plain Python number, a Polarisation, a MonoidList, and the plain list
\* that MonoidList.zero() returns.
Num(n) == [type |-> "int", val |-> n]
Polarisation(ups, downs) == [type |-> "Polarisation", ups |-> ups, downs |-> downs]
MonoidList(values) == [type |-> "MonoidList", values |-> values]
PyList(values) == [type |-> "list", values |-> values]
\* An exception raised while evaluating an expression.
Exc(e) == [type |-> "error", err |-> e]

IsExc(v) == v.type = "error"

\* y == 0 as the __add__ methods test it: true of the number 0 only (a
\* Monoid or a list compares by identity and is never equal to 0).
IsZeroLiteral(y) == y.type = "int" /\ y.val = 0

\* x.zero()
RECURSIVE Zero(_)
Zero(m) ==
    CASE m.type = "Average" -> Average(0, 0)
      [] m.type = "Sum" -> Sum(0)
      [] m.type = "Polarisation" -> Polarisation(Num(0), Num(0))
      [] m.type = "MonoidList" -> PyList([i \in DOMAIN m.values |-> Zero(m.values[i])])

\* Whether zip(self.values, y) can iterate y.
Iterable(y) == y.type \in {"MonoidList", "list"}

\* The first exception among the values of a sequence, when there is one.
FirstExc(seq) ==
    LET bad == {i \in DOMAIN seq : IsExc(seq[i])}
    IN  seq[CHOOSE i \in bad : \A j \in bad : i <= j]

HasExc(seq) == \E i \in DOMAIN seq : IsExc(seq[i])


\* The value of the expression a + b: the __add__ of a's class, or, where a
\* is a plain number or list that cannot add b, the __radd__ of b's class
\* (only Average defines one: return self + y).
RECURSIVE Plus(_, _)
Plus(a, bb) ==
    LET y == IF IsZeroLiteral(bb) /\ a.type \notin {"int", "list", "error"}
             THEN Zero(a) ELSE bb
    IN  CASE IsExc(a) -> a
          [] ~IsExc(a) /\ IsExc(bb) -> bb
          [] OTHER ->
             CASE a.type = "Average" ->
                    IF y.type = "Average" THEN Add(a, y) ELSE Exc("AttributeError")
               [] a.type = "Sum" ->
                    IF y.type \in {"Sum", "Average"} THEN Add(a, y)
                    ELSE Exc("AttributeError")
               [] a.type = "Polarisation" ->
                    IF y.type # "Polarisation" THEN Exc("AttributeError")
                    ELSE LET parts == <<Plus(a.ups, y.ups), Plus(a.downs, y.downs)>>
                         IN  IF HasExc(parts) THEN FirstExc(parts)
                             ELSE Polarisation(parts[1], parts[2])
               [] a.type = "MonoidList" ->
                    IF ~Iterable(y) THEN Exc("TypeError")
                    ELSE LET n == Min(Len(a.values), Len(y.values))
                             parts == [i \in 1..n |-> Plus(a.values[i], y.values[i])]
                         IN  IF HasExc(parts) THEN FirstExc(parts)
                             ELSE MonoidList(parts)
               [] a.type = "int" ->
                    IF bb.type = "int" THEN Num(a.val + bb.val)
                    ELSE IF bb.type = "Average" THEN Plus(bb, a)
                    ELSE Exc("TypeError")
               [] a.type = "list" ->
                    IF bb.type = "list" THEN PyList(a.values \o bb.values)
                    ELSE IF bb.type = "Average" THEN Plus(bb, a)
                    ELSE Exc("TypeError")

\* What a statement does: the value returned, and the left operand afterwards.
Effect(ret, self) == [ret |-> ret, self |-> self]



\* What the statement a += b does: the value the name is bound to afterwards
\* (or the exception), and the object a afterwards.  The __iadd__ methods
\* update the fields of self one after the other and return self; a plain
\* number has no __iadd__ and falls back on +.
RECURSIVE IAddEffect(_, _)
IAddEffect(a, bb) ==
    LET y == IF IsZeroLiteral(bb) /\ a.type \notin {"int", "list", "error"}
             THEN Zero(a) ELSE bb
    IN  CASE IsExc(a) -> Effect(a, a)
          [] ~IsExc(a) /\ IsExc(bb) -> Effect(bb, a)
          [] OTHER ->
             CASE a.type = "Average" ->
                    IF y.type = "Average" THEN Effect(IAdd(a, y), IAdd(a, y))
                    ELSE IF y.type = "Sum"
                    THEN Effect(Exc("AttributeError"), [a EXCEPT !.total = @ + y.total])
                    ELSE Effect(Exc("AttributeError"), a)
               [] a.type = "Sum" ->
                    IF y.type \in {"Sum", "Average"} THEN Effect(IAdd(a, y), IAdd(a, y))
                    ELSE Effect(Exc("AttributeError"), a)
               [] a.type = "Polarisation" ->
                    IF y.type # "Polarisation" THEN Effect(Exc("AttributeError"), a)
                    ELSE LET u == IAddEffect(a.ups, y.ups)
                         IN  IF IsExc(u.ret)
                             THEN Effect(u.ret, [a EXCEPT !.ups = u.self])
                             ELSE LET d == IAddEffect(a.downs, y.downs)
                                      now == [a EXCEPT !.ups = u.ret,
                                                       !.downs = IF IsExc(d.ret)
                                                                 THEN d.self ELSE d.ret]
                                  IN  Effect(IF IsExc(d.ret) THEN d.ret ELSE now, now)
               [] a.type = "MonoidList" ->
                    IF ~Iterable(y) THEN Effect(Exc("TypeError"), a)
                    ELSE LET n == Min(Len(a.values), Len(y.values))
                             effs == [i \in 1..n |-> IAddEffect(a.values[i], y.values[i])]
                             rets == [i \in 1..n |-> effs[i].ret]
                             bad == {i \in 1..n : IsExc(rets[i])}
                             stop == IF bad = {} THEN n
                                     ELSE CHOOSE i \in bad : \A j \in bad : i <= j
                             now == [a EXCEPT !.values =
                                        [i \in DOMAIN a.values |->
                                            IF i <= stop THEN effs[i].self
                                            ELSE a.values[i]]]
                         IN  Effect(IF bad = {} THEN now ELSE rets[stop], now)
               [] a.type = "int" -> Effect(Plus(a, bb), a)
               [] a.type = "list" ->
                    IF Iterable(bb)
                    THEN Effect(PyList(a.values \o bb.values), PyList(a.values \o bb.values))
                    ELSE Effect(Exc("TypeError"), a)


\* + carried out as +=: the left operand is updated.
AddEffectInPlace(a, bb) == IAddEffect(a, bb)

\* What evaluating a + b does: the value returned, and the left operand
\* afterwards (__add__ builds a new object and assigns nothing to self).
AddEffect(a, bb) == Effect(Plus(a, bb), a)

\* Floats that are no fraction: nan, and the ZeroDivisionError that a float
\* division by 0.0 raises.
Nan == <<0, 0>>
DivError == <<1, 0>>

IsNumber(r) == r[2] # 0

RatAdd(p, q) ==
    IF ~IsNumber(p) THEN p ELSE IF ~IsNumber(q) THEN q
    ELSE Rat(p[1] * q[2] + q[1] * p[2], p[2] * q[2])

RatSub(p, q) ==
    IF ~IsNumber(p) THEN p ELSE IF ~IsNumber(q) THEN q
    ELSE Rat(p[1] * q[2] - q[1] * p[2], p[2] * q[2])

RatDiv(p, q) ==
    IF ~IsNumber(p) THEN p ELSE IF ~IsNumber(q) THEN q
    ELSE IF q[1] = 0 THEN DivError
    ELSE Rat(p[1] * q[2], p[2] * q[1])

\* The quotient with no test of the sum of the counts.
PolarisationFloatUnguarded(fu, fd) == RatDiv(RatSub(fu, fd), RatAdd(fu, fd))

\* Polarisation.__float__ given the floats of ups and downs.
PolarisationFloat(fu, fd) ==
    IF RatAdd(fu, fd) = Whole(0) THEN Whole(0)
    ELSE RatDiv(RatSub(fu, fd), RatAdd(fu, fd))

\* float(m): a plain number, Average.__float__, Sum.__float__,
\* Polarisation.__float__.
RECURSIVE Float(_)
Float(m) ==
    CASE m.type = "int" -> Whole(m.val)
      [] m.type = "Sum" -> Whole(m.total)
      [] m.type = "Average" -> IF m.count = 0 THEN Nan ELSE Rat(m.total, m.count)
      [] m.type = "Polarisation" -> PolarisationFloat(Float(m.ups), Float(m.downs))

\* The scalar value(s) of a monoid: float(m), and for a MonoidList the list
\* MonoidList.__float__ returns.
Scalars(m) ==
    IF m.type \in {"MonoidList", "list"}
    THEN [i \in DOMAIN m.values |-> Float(m.values[i])]
    ELSE <<Float(m)>>

\* Polarisation.err(): 0.0 when the counts sum to 0; otherwise the formula,
\* which asks ups and downs for their err() (a plain number has none) and
\* raises (float(ups) - float(downs)) to the power -2.
PolarisationErr(m) ==
    LET fu == Float(m.ups)
        fd == Float(m.downs)
    IN  IF RatAdd(fu, fd) = Whole(0) THEN "0.0"
        ELSE IF m.downs.type = "int" \/ m.ups.type = "int" THEN "AttributeError"
        ELSE IF ~IsNumber(fu) \/ ~IsNumber(fd) THEN "nan"
        ELSE IF fu = fd THEN "ZeroDivisionError"
        ELSE "float"

-----------------------------------------------------------------------------
(* Fitting: Fit.fit_plot_action and the reduction of Scan.fit *)

\* A float, an np.array of floats (the parameters of one fit) and a Python
\* list; None is NoValue.
Number(r) == [num |-> r]
Array(v) == [array |-> v]
List(v) == [list |-> v]

IsList(v) == "list" \in DOMAIN v

\* Fit.__init__(degree, title), with the keys of the fit's readable().
Fit(degree, title, names) == [degree |-> degree, title |-> title, names |-> names]

\* Linear = PolyFit(1, title="Linear"): PolyFit hands degree + 1 to Fit.
Linear == Fit(1 + 1, "Linear", <<"slope", "intercept">>)

\* Gaussian = GaussianFit(): CurveFit.__init__(self, 4, "Gaussian Fit")
Gaussian == Fit(4, "Gaussian Fit", <<"center", "sigma", "amplitude", "background">>)

Fits == {Linear, Gaussian}

\* What a call returns or raises.
Ret(v) == [ret |-> v, exc |-> "none"]
Raise(e) == [ret |-> NoValue, exc |-> e]

\* self.fit(x, y): np.polyfit or curve_fit gives the parameters, one per
\* key of readable(), or raises: curve_fit a RuntimeError when the least
\* squares do not converge and a ValueError on data it cannot take.
FitSeeds == {1, 4}
FitOutcomes(f) ==
    {Ret(Array([i \in 1..Len(f.names) |-> Whole(a * i)])) : a \in FitSeeds}
    \cup {Raise("RuntimeError"), Raise("ValueError")}

TooFewPointsOffByOne(f, axs) == Len(axs) <= f.degree

\* if len(x) < self.degree: return None
TooFewPoints(f, axs) == Len(axs) < f.degree

\* The action fit_plot_action returns, called with the positions x and the
\* accumulators y; outcomes[i] is what self.fit does on its i-th call.  With
\* MonoidLists every channel is fitted, a RuntimeError leaving None in the
\* channel's place; any other exception leaves the action.
FitPlotAction(f, axs, ays, outcomes) ==
    IF TooFewPoints(f, axs) THEN Ret(NoValue)
    ELSE IF ays[1].type = "MonoidList"
    THEN LET n == Len(ays[1].values)
             uncaught == {i \in 1..n : outcomes[i].exc \notin {"none", "RuntimeError"}}
         IN  IF uncaught # {}
             THEN Raise(outcomes[CHOOSE i \in uncaught : \A j \in uncaught : i <= j].exc)
             ELSE Ret(List([i \in 1..n |-> outcomes[i].ret]))
    ELSE IF outcomes[1].exc = "RuntimeError" THEN Ret(NoValue)
    ELSE outcomes[1]

RatLess(p, q) == p[1] * q[2] < q[1] * p[2]

\* The m-th smallest number of a sequence.
Smallest(s, m) ==
    CHOOSE v \in Range(s) :
        /\ Cardinality({i \in DOMAIN s : RatLess(s[i], v)}) < m
        /\ m <= Cardinality({i \in DOMAIN s : ~RatLess(v, s[i])})

\* np.median of a sequence of numbers.
np_median(s) ==
    LET h == Len(s) \div 2
    IN  IF Len(s) % 2 = 1 THEN Smallest(s, h + 1)
        ELSE RatDiv(RatAdd(Smallest(s, h), Smallest(s, h + 1)), Whole(2))

\* np.median(np.array(arrays), axis=0)
MedianAxis0(arrays) ==
    Array([j \in 1..Len(arrays[1].array) |->
              np_median([i \in DOMAIN arrays |-> arrays[i].array[j]])])

\* fit.readable(result): {key: result[i]} for the fit's keys, in order.
Readable(f, result) ==
    LET elems == IF IsList(result) THEN result.list
                 ELSE [i \in DOMAIN result.array |-> Number(result.array[i])]
    IN  IF Len(elems) < Len(f.names) THEN Raise("IndexError")
        ELSE Ret([i \in DOMAIN f.names |-> Item(f.names[i], elems[i])])

IsNotNone(v) == v # NoValue

\* Scan.fit once plot has returned result:
\*   if isinstance(result[0], Iterable) and not isinstance(fit, ExactFit):
\*       result = np.array([x for x in result if x is not None])
\*       result = np.median(result, axis=0)
\*   return fit.readable(result)
\* (None of the fits of Fit.py is an ExactFit.)
ScanFitReturn(f, result) ==
    IF result = NoValue THEN Raise("TypeError")
    ELSE IF IsList(result) /\ result.list = <<>> THEN Raise("IndexError")
    ELSE IF IsList(result) /\ result.list[1] # NoValue
    THEN Readable(f, MedianAxis0(SelectSeq(result.list, IsNotNone)))
    ELSE Readable(f, result)

-----------------------------------------------------------------------------
(* State *)

VARIABLES
    scan,        \* the scan expression built so far
    b,           \* the scan given as right operand to +, * and &
    prev,        \* the scan the last operator was applied to
    lastop,      \* the last operator applied
    nops,        \* how many operators were applied
    phase,       \* "build", "run", "done", "asked" (len was taken), "error"
    err,         \* the exception raised, "none" if none
    lenres,      \* what len(scan) returned, once asked
    mode,        \* "measure": for x in scan; "plot": Scan.plot
    calib,       \* the calibration of the motors of this run
    detkind,     \* what the detector of this run returns
    tokens,      \* the tokens of one iteration of scan
    pc,          \* the next token
    stage,       \* where the loop body of Scan.plot stands: "iter", "detect", "fold"
    instrument,  \* the set point of each motor
    lastread,    \* what the last read of a motor returned
    moves,       \* the motion commands issued, in order
    yielded,     \* the records the iteration has yielded, in order
    x,           \* the record of the current step
    value,       \* the measurement of the current step
    ndet,        \* how many measurements the detector has made
    xs,          \* Scan.plot: the positions visited
    ys,          \* Scan.plot: the accumulator at each position
    visits,      \* every position/measurement pair folded, in order
    logfile,     \* the lines written to the log file
    values,      \* ProductScan.plot: the accumulators, a row per outer position
    fit,         \* Scan.fit: the fit whose action plot calls, NoValue for none
    action_remainder,  \* what the last call of the action returned
    returned,    \* what Scan.fit returned, NoValue before
    kwargs,      \* the keyword arguments given to scan(motion, **kwargs)
    current,     \* what motion() returned to make_scan's scan, None before
    points,      \* what get_points returned or raised, None before
    numpy,       \* whether the numpy of the build refuses a float sample count
    command,     \* the ascan or dscan call under way, None for none
    init,        \* dscan: what motor() returned at the call, None before
    manager,     \* the detector manager made of a detector function, None for none
    dae,         \* the DAE: its period, its number of periods, the periods used
    pipe,        \* multiplot: the messages under way to the plotter and back
    plotter,     \* the ProcessPlotter in its process: figure, axis, timer
    plot,        \* the NBPlot of the scan loop
    mx, my, mz,  \* three monoids x, y, z of one type
    orig,        \* x, y and z as they were made
    total,       \* the running total the statements build
    expr,        \* the statements executed on total, in order
    alias,       \* whether total is the object x itself (after total = x)
    mexc,        \* the exception the last statement raised, "none" if none
    scalar,      \* float(total) once it is taken, None before
    uncert       \* total.err() once it is taken

algebra == <<scan, b, prev, lastop, nops, lenres>>
setup == <<mode, calib, detkind, tokens>>
hardware == <<instrument, lastread, moves>>
fitted == <<fit, action_remainder, returned>>
plotted == <<xs, ys, visits, logfile, values, fitted>>
pointvars == <<kwargs, current, points, numpy, command, init, manager, dae>>
plotvars == <<pipe, plotter, plot>>
monoidvars == <<mx, my, mz, orig, total, expr, alias, mexc, scalar, uncert>>
\* What building and running a scan expression leaves alone.
calc == <<pointvars, monoidvars, plotvars>>
scanvars == <<scan, b, prev, lastop, nops, phase, err, lenres, mode, calib,
              detkind, tokens, pc, stage, instrument, lastread, moves, yielded,
              x, value, ndet, xs, ys, visits, logfile, values, fit,
              action_remainder, returned>>
vars == <<scanvars, calc>>

\* The point lists a scan is made with: get_points' evenly spaced points
\* start, start + step, ... with start = 0 and step = 1.
Ramp(n) == [i \in 1..n |-> i - 1]

ValueLists == {Ramp(n) : n \in 0..MaxLen}

\* scan(motion, ...): SimpleScan(motion, points, defaults)
SimpleScans == {SimpleScan(m, vs, DefaultsObj) : m \in Motors, vs \in ValueLists}

\* The plotting process of multiplot.py
\* The most drawing commands sent through one NBPlot.
MaxCommands == 3

\* The names the commands are sent under: "clf" is handled by name, clear is
\* a method of the axis (Scans.py line 177), savefig one of the figure
\* (line 195).
CommandNames == {"clf", "clear", "savefig"}

AxisMethods == {"clear"}

FigureMethods == {"savefig"}

\* NBPlot.__getattr__: the tuple (name, args, kwargs) sent for plot.name(...)
Command(name) == [name |-> name]

\* The shutdown message of NBPlot.join: None.
Shutdown == NoValue

\* No NBPlot is made.
NoPlot ==
    /\ pipe = [down |-> <<>>, up |-> <<>>, closed |-> FALSE]
    /\ plotter = [called |-> FALSE, fig |-> "None", axis |-> "None",
                  timer |-> "none", applied |-> <<>>, exc |-> "none"]
    /\ plot = [pc |-> "none", sent |-> <<>>, joins |-> 0, result |-> NoValue,
               exc |-> "none"]

\* No scan(motion, **kwargs) call is under way.
NoPoints ==
    /\ kwargs = None
    /\ current = None
    /\ points = None
    /\ numpy = "none"
    /\ command = None
    /\ init = None
    /\ manager = None
    /\ dae = None

\* No monoid expression is under evaluation.
NoMonoids ==
    /\ mx = Num(0) /\ my = Num(0) /\ mz = Num(0)
    /\ orig = <<Num(0), Num(0), Num(0)>>
    /\ total = Num(0)
    /\ expr = <<>>
    /\ alias = FALSE
    /\ mexc = "none"
    /\ scalar = None
    /\ uncert = "none"

Init ==
    /\ scan \in SimpleScans
    /\ b \in SimpleScans
    /\ prev = scan
    /\ lastop = "none"
    /\ nops = 0
    /\ phase = "build"
    /\ err = "none"
    /\ lenres = LenOk(0)
    /\ mode = "none"
    /\ calib = 0
    /\ detkind = "float"
    /\ tokens = <<>>
    /\ pc = 1
    /\ stage = "iter"
    /\ instrument = [m \in Motors |-> 0]
    /\ lastread = 0
    /\ moves = <<>>
    /\ yielded = <<>>
    /\ x = <<>>
    /\ value = NoValue
    /\ ndet = 0
    /\ xs = <<>>
    /\ ys = <<>>
    /\ visits = <<>>
    /\ logfile = <<>>
    /\ values = <<>>
    /\ fit = NoValue
    /\ action_remainder = NoValue
    /\ returned = NoValue
    /\ NoPoints
    /\ NoMonoids
    /\ NoPlot

-----------------------------------------------------------------------------
(* Building a scan expression *)

\* Scan.__add__, Scan.__mul__, Scan.__and__, Scan.forever
ScanAdd(self, other) == SumScan(self, other)
ScanMul(self, other) == ProductScan(self, other)
ScanAnd(self, other) == ParallelScan(self, other)
ScanForever(self) == ForeverScan(self)

\* The operator op was applied to scan and gave result, or raised.
Applied(op, result) ==
    /\ phase = "build"
    /\ nops < MaxOps
    /\ prev' = scan
    /\ lastop' = op
    /\ nops' = nops + 1
    /\ IF IsError(result)
       THEN scan' = scan /\ phase' = "error" /\ err' = result.err
       ELSE scan' = result /\ phase' = phase /\ err' = err
    /\ UNCHANGED <<calc, b, lenres, setup, pc, stage, hardware, yielded, x, value,
                   ndet, plotted>>

\* scan + b, scan * b, scan & b.  (An operand after a forever scan is never
\* reached by the iteration; the model combines finite scans only.)
DoAdd == IsFinite(scan) /\ Applied("add", ScanAdd(scan, b))
DoMul == IsFinite(scan) /\ Applied("mul", ScanMul(scan, b))
DoAnd == IsFinite(scan) /\ Applied("and", ScanAnd(scan, b))

\* scan.reverse
DoReverse == Applied("reverse", Reverse(scan))

\* scan.and_back
DoAndBack == IsFinite(scan) /\ Applied("and_back", AndBack(scan))

\* scan.forever
DoForever ==
    /\ IsFinite(scan)
    /\ ~HasOneshot(scan)
    /\ Applied("forever", ScanForever(scan))

\* scan.map(f).  One interpreter runs the whole session, so map() returns an
\* iterator either every time or never.
DoMap ==
    \E f \in Funcs, lazy \in BOOLEAN :
        /\ lazy => IsFinite(scan)
        /\ HasOneshot(scan) => lazy
        /\ (scan.defaults # DefaultsObj /\ ~HasOneshot(scan)) => ~lazy
        /\ Applied("map", Map(scan, f, lazy))

\* len(scan), as Scan.calculate takes it.
DoLen ==
    /\ phase = "build"
    /\ lenres' = ScanLen(scan)
    /\ err' = lenres'.err
    /\ phase' = IF lenres'.err = "none" THEN "asked" ELSE "error"
    /\ UNCHANGED <<calc, scan, b, prev, lastop, nops, setup, pc, stage, hardware,
                   yielded, x, value, ndet, plotted>>

-----------------------------------------------------------------------------
(* Running a scan *)

\* for x in self: measure(title, x)   (Scan.measure, a measure being given)
StartMeasure ==
    \E c \in Calibs :
        /\ phase = "build"
        /\ nops <= MaxRunOps
        /\ phase' = "run"
        /\ mode' = "measure"
        /\ calib' = c
        /\ tokens' = Tokens(scan, c)
        /\ UNCHANGED <<calc, algebra, err, detkind, pc, stage, hardware, yielded, x,
                       value, ndet, plotted>>

\* Scan.plot up to the loop: the detector is normalised and the log file
\* opened, both through self.defaults.  ProductScan has a plot of its own.
StartPlot ==
    \E c \in Calibs, k \in DetectorKinds :
        /\ phase = "build"
        /\ nops <= MaxRunOps
        /\ scan.kind # "Product"
        /\ IF scan.defaults = DefaultsObj
           THEN /\ phase' = "run"
                /\ mode' = "plot"
                /\ calib' = c
                /\ detkind' = k
                /\ tokens' = Tokens(scan, c)
                /\ err' = err
           ELSE /\ phase' = "error"
                /\ err' = "AttributeError"
                /\ UNCHANGED setup
        /\ UNCHANGED <<calc, algebra, pc, stage, hardware, yielded, x, value, ndet,
                       plotted>>

Running == phase = "run" /\ stage = "iter" /\ pc <= Len(tokens)

\* self.action(i): the motor is sent to the point.
DoMove ==
    /\ Running
    /\ tokens[pc].t = "move"
    /\ scan.kind = "Forever" => Len(moves) < 3 * MaxYield
    /\ instrument' = [instrument EXCEPT ![tokens[pc].motor] = tokens[pc].point]
    /\ moves' = Append(moves, <<tokens[pc].motor, tokens[pc].point>>)
    /\ pc' = pc + 1
    /\ UNCHANGED <<calc, algebra, phase, err, setup, stage, lastread, yielded, x,
                   value, ndet, plotted>>

\* g.waitfor_move()
DoWait ==
    /\ Running
    /\ tokens[pc].t = "wait"
    /\ pc' = pc + 1
    /\ UNCHANGED <<calc, algebra, phase, err, setup, stage, hardware, yielded, x,
                   value, ndet, plotted>>

\* self.action(): the motor is read.
DoRead ==
    /\ Running
    /\ tokens[pc].t = "read"
    /\ lastread' = Reported(instrument[tokens[pc].motor], calib)
    /\ pc' = pc + 1
    /\ UNCHANGED <<calc, algebra, phase, err, setup, stage, instrument, moves,
                   yielded, x, value, ndet, plotted>>

\* The outermost generator yields a record to the loop.
DoYield ==
    /\ Running
    /\ tokens[pc].t = "yield"
    /\ scan.kind = "Forever" => Len(yielded) < MaxYield
    /\ yielded' = Append(yielded, tokens[pc].rec)
    /\ x' = tokens[pc].rec
    /\ pc' = pc + 1
    /\ stage' = IF mode \in {"plot", "plot2d"} THEN "detect" ELSE "iter"
    /\ UNCHANGED <<calc, algebra, phase, err, setup, hardware, value, ndet, plotted>>

\* value = detect(**just_times(kwargs))
DoDetect ==
    /\ phase = "run"
    /\ stage = "detect"
    /\ ndet' = ndet + 1
    /\ value' = DetectorValue(detkind, ndet + 1)
    /\ stage' = "fold"
    /\ UNCHANGED <<calc, algebra, phase, err, setup, pc, hardware, yielded, x, plotted>>

\* (label, position) = next(iter(x.items()))
Position(rec) == rec[1].v

\* How many times the action calls self.fit at most: once for each row of
\* np.array(y.values()).
FitCalls(ays) == IF ays[1].type = "MonoidList" THEN Len(ays[1].values) ELSE 1

\* The rest of the loop body: the measurement is promoted and folded in by
\* position, a line is written to the log file, and
\*   if action: action_remainder = action(xs, ys, axis)
\* An exception of the action leaves plot.
DoFold ==
    /\ phase = "run"
    /\ mode = "plot"
    /\ stage = "fold"
    /\ LET acc == Accumulate(xs, ys, Position(x), Promote(value))
       IN  /\ xs' = acc.xs
           /\ ys' = acc.ys
           /\ logfile' = Append(logfile,
                                <<acc.xs[Len(acc.xs)], MonoidStr(acc.ys[Len(acc.ys)])>>)
           /\ IF fit = NoValue
              THEN UNCHANGED <<phase, err, action_remainder>>
              ELSE \E outcomes \in [1..FitCalls(acc.ys) -> FitOutcomes(fit)] :
                      LET called == FitPlotAction(fit, acc.xs, acc.ys, outcomes)
                      IN  IF called.exc = "none"
                          THEN /\ action_remainder' = called.ret
                               /\ UNCHANGED <<phase, err>>
                          ELSE /\ phase' = "error"
                               /\ err' = called.exc
                               /\ UNCHANGED action_remainder
    /\ visits' = Append(visits, [pos |-> Position(x), val |-> Promote(value)])
    /\ stage' = "iter"
    /\ UNCHANGED <<calc, algebra, setup, pc, hardware, yielded, x, value, ndet, values,
                   fit, returned>>

\* The loop of ProductScan.plot raised exc.
RaisedInLoop(exc) ==
    /\ phase' = "error"
    /\ err' = exc
    /\ UNCHANGED <<calc, algebra, setup, pc, stage, hardware, yielded, x, value, ndet,
                   plotted>>

\* ProductScan.plot up to the loop: the run state is asked of the instrument,
\* the detector is normalised, and values gets a row of len(self.inner) nan
\* for each of the len(self.outer) outer positions.
StartPlotProduct ==
    \E c \in Calibs, k \in DetectorKinds, runstate \in {"SETUP", "RUNNING"} :
        /\ phase = "build"
        /\ nops <= MaxRunOps
        /\ scan.kind = "Product"
        /\ LET rows == ScanLen(scan.outer)
               cols == ScanLen(scan.inner)
               exc == IF runstate # "SETUP" THEN "RuntimeError"
                      ELSE IF scan.defaults # DefaultsObj THEN "AttributeError"
                      ELSE IF rows.err # "none" THEN rows.err
                      ELSE cols.err
           IN  IF exc = "none"
               THEN /\ phase' = "run"
                    /\ mode' = "plot2d"
                    /\ calib' = c
                    /\ detkind' = k
                    /\ tokens' = Tokens(scan, c)
                    /\ err' = err
                    /\ values' = [i \in 1..rows.val |-> [j \in 1..cols.val |-> NoValue]]
               ELSE /\ phase' = "error"
                    /\ err' = exc
                    /\ UNCHANGED <<setup, values>>
        /\ UNCHANGED <<calc, algebra, pc, stage, hardware, yielded, x, value, ndet,
                       xs, ys, visits, logfile, fitted>>

\* list.append unless the element is in the list already.
AppendNew(seq, e) == IF e \in Range(seq) THEN seq ELSE Append(seq, e)

\* The rest of the loop body of ProductScan.plot: y and x are the positions
\* under the first and the second key of the record, the measurement is
\* promoted and folded into values[ys.index(y)][xs.index(x)], and a line is
\* written to the log file.
DoFoldProduct ==
    /\ phase = "run"
    /\ mode = "plot2d"
    /\ stage = "fold"
    /\ IF Len(x) < 2
       THEN RaisedInLoop("IndexError")
       ELSE LET y == x[1].v
                px == x[2].v
                nxs == AppendNew(xs, px)
                nys == AppendNew(ys, y)
                row == Index(nys, y)
                col == Index(nxs, px)
            IN  IF row > Len(values) \/ col > Len(values[row])
                THEN RaisedInLoop("IndexError")
                ELSE LET cell == values[row][col]
                         folded == IF cell = NoValue THEN Promote(value)
                                   ELSE IAdd(cell, Promote(value))
                         nvalues == [values EXCEPT ![row][col] = folded]
                     IN  /\ xs' = nxs
                         /\ ys' = nys
                         /\ values' = nvalues
                         /\ logfile' = Append(logfile,
                                              <<nxs[Len(nxs)], nvalues[Len(nvalues)]>>)
                         /\ visits' = Append(visits, [pos |-> <<y, px>>,
                                                      val |-> Promote(value)])
                         /\ stage' = "iter"
                         /\ UNCHANGED <<calc, algebra, phase, err, setup, pc, hardware,
                                        yielded, x, value, ndet, fitted>>

\* Where in the statements of the fold a KeyboardInterrupt lands: before
\* them, between xs.append(position) and ys.append(value), after the fold
\* and before the line is written to the log file, or after the line is
\* written and before the action has returned.
FoldCuts == {"before", "appended", "folded", "logged"}

\* A KeyboardInterrupt is raised in the loop of Scan.plot: the statement
\* under way is abandoned, the with block is left and
\*   except KeyboardInterrupt: pass
\* ends the loop; plot goes on to return.
Interrupt ==
    /\ phase = "run"
    /\ mode = "plot"
    /\ phase' = "stopped"
    /\ \E cut \in FoldCuts :
          LET position == Position(x)
              acc == Accumulate(xs, ys, position, Promote(value))
          IN  IF stage # "fold" \/ cut = "before"
              THEN /\ cut = "before"
                   /\ UNCHANGED plotted
              ELSE IF cut = "appended"
              THEN /\ position \notin Range(xs)
                   /\ xs' = Append(xs, position)
                   /\ UNCHANGED <<ys, visits, logfile, values, fitted>>
              ELSE /\ xs' = acc.xs
                   /\ ys' = acc.ys
                   /\ visits' = Append(visits, [pos |-> position, val |-> Promote(value)])
                   /\ logfile' = IF cut = "folded" THEN logfile
                                 ELSE Append(logfile, <<acc.xs[Len(acc.xs)],
                                                       MonoidStr(acc.ys[Len(acc.ys)])>>)
                   /\ UNCHANGED <<values, fitted>>
    /\ UNCHANGED <<calc, algebra, err, setup, pc, stage, hardware, yielded, x, value, ndet>>

\* ForeverScan.__iter__: while True, the scan is iterated once more.
DoRestart ==
    /\ phase = "run"
    /\ stage = "iter"
    /\ pc > Len(tokens)
    /\ scan.kind = "Forever"
    /\ pc' = 1
    /\ UNCHANGED <<calc, algebra, phase, err, setup, stage, hardware, yielded, x,
                   value, ndet, plotted>>

\* The iteration is over and the loop ends.
DoFinish ==
    /\ phase = "run"
    /\ stage = "iter"
    /\ pc > Len(tokens)
    /\ scan.kind # "Forever"
    /\ phase' = "done"
    /\ UNCHANGED <<calc, algebra, err, setup, pc, stage, hardware, yielded, x, value,
                   ndet, plotted>>

Next ==
    \/ DoAdd \/ DoMul \/ DoAnd \/ DoReverse \/ DoAndBack \/ DoForever \/ DoMap
    \/ DoLen \/ StartMeasure \/ StartPlot \/ StartPlotProduct
    \/ DoMove \/ DoWait \/ DoRead \/ DoYield \/ DoDetect \/ DoFold \/ DoFoldProduct
    \/ DoRestart \/ DoFinish \/ Interrupt

Spec == Init /\ [][Next]_vars

-----------------------------------------------------------------------------
(* Scan.fit: the loop of Scan.plot with the action of a fit *)

MaxFitPoints == 4

\* The scans fitted: a SimpleScan over up to MaxFitPoints points.
FitScans == {SimpleScan("theta", Ramp(n), DefaultsObj) : n \in 0..MaxFitPoints}

\* What the detector of a fitted scan returns: one channel or several.
FitDetectorKinds == {"float", "MonoidList"}

InitFit ==
    /\ scan \in FitScans
    /\ b = scan
    /\ prev = scan
    /\ lastop = "none"
    /\ nops = 0
    /\ phase = "build"
    /\ err = "none"
    /\ lenres = LenOk(0)
    /\ mode = "none"
    /\ calib = 0
    /\ detkind = "float"
    /\ tokens = <<>>
    /\ pc = 1
    /\ stage = "iter"
    /\ instrument = [m \in Motors |-> 0]
    /\ lastread = 0
    /\ moves = <<>>
    /\ yielded = <<>>
    /\ x = <<>>
    /\ value = NoValue
    /\ ndet = 0
    /\ xs = <<>>
    /\ ys = <<>>
    /\ visits = <<>>
    /\ logfile = <<>>
    /\ values = <<>>
    /\ fit = NoValue
    /\ action_remainder = NoValue
    /\ returned = NoValue
    /\ NoPoints
    /\ NoMonoids
    /\ NoPlot

\* Scan.fit(fit) up to the loop of plot:
\*   result = self.plot(action=fit.fit_plot_action(), **kwargs)
StartFit ==
    \E f \in Fits, k \in FitDetectorKinds :
        /\ phase = "build"
        /\ phase' = "run"
        /\ mode' = "plot"
        /\ calib' = 0
        /\ detkind' = k
        /\ tokens' = Tokens(scan, 0)
        /\ fit' = f
        /\ UNCHANGED <<calc, algebra, err, pc, stage, hardware, yielded, x, value, ndet,
                       xs, ys, visits, logfile, values, action_remainder, returned>>

\* plot has returned action_remainder (the loop ended or was interrupted):
\* Scan.fit reduces it and returns fit.readable of it, or raises.
ReturnFit ==
    /\ phase \in {"done", "stopped"}
    /\ fit # NoValue
    /\ LET reduced == ScanFitReturn(fit, action_remainder)
       IN  IF reduced.exc = "none"
           THEN /\ phase' = "fitted"
                /\ returned' = reduced.ret
                /\ err' = err
           ELSE /\ phase' = "error"
                /\ err' = reduced.exc
                /\ returned' = returned
    /\ UNCHANGED <<calc, algebra, setup, pc, stage, hardware, yielded, x, value, ndet,
                   xs, ys, visits, logfile, values, fit, action_remainder>>

NextFit ==
    \/ StartFit
    \/ DoMove \/ DoWait \/ DoRead \/ DoYield \/ DoDetect \/ DoFold
    \/ DoFinish \/ Interrupt \/ ReturnFit

SpecFit == InitFit /\ [][NextFit]_vars

-----------------------------------------------------------------------------
(* scan(motion, **kwargs): make_scan's scan over Util.get_points *)

\* The keyword arguments a call is made with.
Starts == {None, Some(0), Some(10)}
Stops == {None, Some(0), Some(9), Some(10)}
Steps == {None, Some(3), Some(-3)}
Strides == {None, Some(3), Some(-3)}
Counts == {None, Some(1), Some(5)}
GapCounts == {None, Some(0), Some(4)}
Befores == {None, Some(-2)}
Afters == {None, Some(3)}
Exacts == {None, Some(<<1, 2>>)}

Kwargs ==
    [motion : {"theta"}, start : Starts, stop : Stops, step : Steps,
     stride : Strides, count : Counts, gaps : GapCounts, before : Befores,
     after : Afters, exact : Exacts]

\* Motor positions are whole multiples of 1/Quantum of the unit the keyword
\* arguments are in; every spacing get_points makes of Kwargs is one.
Quantum == 3 * 4

\* The position of a point, and the point of a position.
ToPosition(r) == (r[1] * Quantum) \div r[2]
ToPoint(position) == Rat(position, Quantum)

\* Where the motor stands when scan(...) is called.
Parked == 5

NoScan == [kind |-> "None"]

InitPoints ==
    /\ kwargs \in Kwargs
    /\ current = None
    /\ points = None
    /\ numpy = "none"
    /\ command = None
    /\ init = None
    /\ manager = None
    /\ dae = None
    /\ NoMonoids
    /\ NoPlot
    /\ scan = NoScan /\ b = NoScan /\ prev = NoScan
    /\ lastop = "none"
    /\ nops = 0
    /\ phase = "call"
    /\ err = "none"
    /\ lenres = LenOk(0)
    /\ mode = "none"
    /\ calib = 0
    /\ detkind = "float"
    /\ tokens = <<>>
    /\ pc = 1
    /\ stage = "iter"
    /\ instrument = [m \in Motors |-> Parked * Quantum]
    /\ lastread = 0
    /\ moves = <<>>
    /\ yielded = <<>>
    /\ x = <<>>
    /\ value = NoValue
    /\ ndet = 0
    /\ xs = <<>>
    /\ ys = <<>>
    /\ visits = <<>>
    /\ logfile = <<>>
    /\ values = <<>>
    /\ fit = NoValue
    /\ action_remainder = NoValue
    /\ returned = NoValue

\* scan(motion, **kwargs):  points = get_points(motion(), **kwargs)
\*                          return SimpleScan(motion, points, defaults)
MakeScan ==
    \E strict \in BOOLEAN :
        LET here == Reported(instrument[kwargs.motion], calib)
            got == get_points(ToPoint(here)[1], kwargs, strict)
        IN  /\ phase = "call"
            /\ numpy' = IF strict THEN "strict" ELSE "legacy"
            /\ lastread' = here
            /\ current' = Some(ToPoint(here)[1])
            /\ points' = Some(got)
            /\ IF got.err = "none"
               THEN /\ scan' = SimpleScan(kwargs.motion,
                                          [i \in DOMAIN got.val |-> ToPosition(got.val[i])],
                                          DefaultsObj)
                    /\ phase' = "build"
                    /\ err' = err
               ELSE /\ scan' = scan
                    /\ phase' = "error"
                    /\ err' = got.err
            /\ UNCHANGED <<kwargs, command, init, manager, dae, monoidvars, plotvars, b, prev,
                           lastop, nops, lenres, setup, pc, stage, instrument, moves,
                           yielded, x, value, ndet, plotted>>

\* for x in scan(...): the scan is then run on the same motors.
RunScan == StartMeasure /\ calib' = calib

NextPoints ==
    \/ MakeScan \/ RunScan
    \/ DoMove \/ DoWait \/ DoRead \/ DoYield \/ DoFinish

SpecPoints == InitPoints /\ [][NextPoints]_vars

-----------------------------------------------------------------------------
(* The SPEC commands ascan and dscan of Spec.py *)

MaxIntervals == 2

\* ascan(motor, start, end, intervals, time), dscan(...)
Commands ==
    [name : {"ascan", "dscan"}, motor : {"theta"}, start : {-2, 0}, end : {-2, 3},
     intervals : 0..MaxIntervals, time : {-50, 5}]

\* The keyword arguments the command gives to scan(motor, ...).
CommandKwargs(c) ==
    [motion |-> c.motor,
     start |-> IF c.name = "ascan" THEN Some(c.start) ELSE None,
     stop |-> IF c.name = "ascan" THEN Some(c.end) ELSE None,
     before |-> IF c.name = "dscan" THEN Some(c.start) ELSE None,
     after |-> IF c.name = "dscan" THEN Some(c.end) ELSE None,
     gaps |-> Some(c.intervals),
     step |-> None, stride |-> None, count |-> None, exact |-> None]

InitCommands ==
    /\ command \in Commands
    /\ init = None
    /\ manager = None
    /\ dae = None
    /\ kwargs = None
    /\ current = None
    /\ points = None
    /\ numpy = "none"
    /\ NoMonoids
    /\ NoPlot
    /\ scan = NoScan /\ b = NoScan /\ prev = NoScan
    /\ lastop = "none"
    /\ nops = 0
    /\ phase = "command"
    /\ err = "none"
    /\ lenres = LenOk(0)
    /\ mode = "none"
    /\ calib \in {c * Quantum : c \in Calibs}
    /\ detkind = "float"
    /\ tokens = <<>>
    /\ pc = 1
    /\ stage = "iter"
    /\ instrument = [m \in Motors |-> Parked * Quantum]
    /\ lastread = 0
    /\ moves = <<>>
    /\ yielded = <<>>
    /\ x = <<>>
    /\ value = NoValue
    /\ ndet = 0
    /\ xs = <<>>
    /\ ys = <<>>
    /\ visits = <<>>
    /\ logfile = <<>>
    /\ values = <<>>
    /\ fit = NoValue
    /\ action_remainder = NoValue
    /\ returned = NoValue

\* The command up to its call of scan: dscan first reads the motor,
\*   init = motor()
CallCommand ==
    /\ phase = "command"
    /\ phase' = "call"
    /\ kwargs' = CommandKwargs(command)
    /\ IF command.name = "dscan"
       THEN /\ lastread' = Reported(instrument[command.motor], calib)
            /\ init' = Some(lastread')
       ELSE UNCHANGED <<lastread, init>>
    /\ UNCHANGED <<current, points, numpy, command, manager, dae, monoidvars, plotvars, algebra,
                   err, setup,
                   pc, stage, instrument, moves, yielded, x, value, ndet, plotted>>

\* scan(...).plot(seconds=time) or .plot(frames=-time): Scan.plot up to the
\* loop, on the motor the scan was made on.
PlotCommand ==
    \E k \in DetectorKinds :
        /\ phase = "build"
        /\ command # None
        /\ phase' = "run"
        /\ mode' = "plot"
        /\ detkind' = k
        /\ tokens' = Tokens(scan, calib)
        /\ UNCHANGED <<calc, algebra, err, calib, pc, stage, hardware, yielded, x, value,
                       ndet, plotted>>

\* The motion (sent, awaited or read) or the detector raises: the exception
\* leaves the loop and plot.
HardwareFails ==
    /\ phase = "run"
    /\ \/ stage = "detect"
       \/ stage = "iter" /\ pc <= Len(tokens) /\ tokens[pc].t \in {"move", "wait", "read"}
    /\ phase' = "error"
    /\ err' = "IOError"
    /\ UNCHANGED <<calc, algebra, setup, pc, stage, hardware, yielded, x, value, ndet,
                   plotted>>

RestoresOnReturn(c, exc) == c.name = "dscan" /\ exc = "none"

\* dscan runs the scan under try ... finally: motor(init)
Restores(c, exc) == c.name = "dscan"

\* The command is left: plot has returned (the loop ended or was
\* interrupted) or an exception is on its way to the caller; dscan sends the
\* motor to init before it is left.
Leave ==
    /\ command # None
    /\ phase \in {"done", "stopped", "error"}
    /\ phase' = IF err = "none" THEN "returned" ELSE "raised"
    /\ IF Restores(command, err)
       THEN /\ instrument' = [instrument EXCEPT ![command.motor] = Val(init)]
            /\ moves' = Append(moves, <<command.motor, Val(init)>>)
       ELSE UNCHANGED <<instrument, moves>>
    /\ UNCHANGED <<calc, algebra, err, setup, pc, stage, lastread, yielded, x, value,
                   ndet, plotted>>

NextCommands ==
    \/ CallCommand \/ MakeScan \/ PlotCommand
    \/ DoMove \/ DoWait \/ DoRead \/ DoYield \/ DoDetect \/ DoFold
    \/ DoFinish \/ Interrupt \/ HardwareFails \/ Leave

SpecCommands == InitCommands /\ [][NextCommands]_vars

-----------------------------------------------------------------------------
(* The DAE periods of Detector.DaePeriods and Larmor.pol_measure *)

MaxDaePoints == 3

\* No scan is built or run.
IdleScan ==
    /\ b = NoScan /\ prev = NoScan
    /\ lastop = "none"
    /\ nops = 0
    /\ err = "none"
    /\ lenres = LenOk(0)
    /\ mode = "none"
    /\ calib = 0
    /\ detkind = "float"
    /\ tokens = <<>>
    /\ pc = 1
    /\ stage = "iter"
    /\ instrument = [m \in Motors |-> 0]
    /\ lastread = 0
    /\ moves = <<>>
    /\ yielded = <<>>
    /\ x = <<>>
    /\ value = NoValue
    /\ ndet = 0
    /\ xs = <<>>
    /\ ys = <<>>
    /\ visits = <<>>
    /\ logfile = <<>>
    /\ values = <<>>
    /\ fit = NoValue
    /\ action_remainder = NoValue
    /\ returned = NoValue

\* The detector functions of Larmor.py that measure in periods.
DetectorFunctions == {"pol_measure", "fast_pol_measure"}

\* The period the DAE stands in before the scan: 0 is the mock (g.period = 0).
FirstPeriods == {0, 1}

\* The frames asked of each measurement: kwargs["frames"].
Frames == {2, 5}

InitDae ==
    /\ scan \in {SimpleScan("theta", Ramp(n), DefaultsObj) : n \in 0..MaxDaePoints}
    /\ IdleScan
    /\ phase = "import"
    /\ kwargs \in [frames : Frames]
    /\ current = None
    /\ points = None
    /\ numpy = "none"
    /\ command = None
    /\ init = None
    /\ manager = None
    /\ dae \in [period : FirstPeriods, nperiods : {1}, frames : {0}, begun : {FALSE},
               used : {<<>>}]
    /\ NoMonoids
    /\ NoPlot

\* @dae_periods(pre_init, period_function) above a detector function:
\* dae_periods defines inner and returns nothing, so the decoration calls
\* None and the module is not imported.
Decorate ==
    /\ phase = "import"
    /\ phase' = "error"
    /\ err' = "TypeError"
    /\ UNCHANGED <<kwargs, current, points, numpy, command, init, monoidvars, plotvars, manager,
                   dae, algebra, setup, pc, stage, hardware, yielded, x, value, ndet,
                   plotted>>

\* DaePeriods(f, pre_init, period_function=...), as inner makes it:
\* __init__ keeps f, pre_init and save = True; period_function is not kept.
Construct ==
    \E f \in DetectorFunctions :
        /\ phase = "import"
        /\ phase' = "made"
        /\ manager' = Some([f |-> f, save |-> TRUE, period_function |-> None])
        /\ UNCHANGED <<kwargs, current, points, numpy, command, init, monoidvars, plotvars, dae,
                       algebra, err, setup, pc, stage, hardware, yielded, x, value,
                       ndet, plotted>>

\* Scan.plot: detector(self, save, **kwargs), DaePeriods.__call__:
\*   self._pre_init(); self._save = save; g.change_title(title)
\*   g.change(nperiods=self.period_function(scan)); g.begin(paused=1)
\* The manager has no period_function: AttributeError, before the number of
\* periods is set and the run begun.
CallManager ==
    \E save \in BOOLEAN :
        /\ phase = "made"
        /\ manager' = Some([Val(manager) EXCEPT !.save = save])
        /\ IF Val(manager).period_function = None
           THEN /\ phase' = "error"
                /\ err' = "AttributeError"
                /\ dae' = dae
           ELSE /\ phase' = "begun"
                /\ err' = err
                /\ dae' = [dae EXCEPT !.nperiods = Val(Val(manager).period_function),
                                      !.begun = TRUE]
        /\ UNCHANGED <<kwargs, current, points, numpy, command, init, monoidvars, plotvars,
                       algebra, setup, pc, stage, hardware, yielded, x, value, ndet,
                       plotted>>

\* pol_measure: i = g.get_period(); the flipper-on count in the period the
\* DAE stands in; g.change(period=1+i); the flipper-off count.
PolMeasurePeriods(i) == [on |-> i, off |-> 1 + i, last |-> 1 + i]

\* fast_pol_measure: i = g.get_period(); g.change(period=i+1); one count.
FastPolMeasurePeriods(i) == [on |-> i + 1, off |-> i + 1, last |-> i + 1]

\* The detector function is called for the next point of the scan:
\* g.resume(); g.waitfor(frames=gfrm+kwargs["frames"]); g.pause() in each
\* of its periods.
Measure ==
    /\ phase = "made"
    /\ ndet < Len(scan.values)
    /\ LET f == Val(manager).f
           p == IF f = "pol_measure" THEN PolMeasurePeriods(dae.period)
                ELSE FastPolMeasurePeriods(dae.period)
           counts == IF f = "pol_measure" THEN 2 ELSE 1
       IN  dae' = [dae EXCEPT !.period = p.last,
                              !.frames = @ + counts * kwargs.frames,
                              !.used = Append(@, <<p.on, p.off>>)]
    /\ ndet' = ndet + 1
    /\ UNCHANGED <<kwargs, current, points, numpy, command, init, monoidvars, plotvars, manager,
                   algebra, phase, err, setup, pc, stage, hardware, yielded, x, value,
                   plotted>>

NextDae == Decorate \/ Construct \/ CallManager \/ Measure

SpecDae == InitDae /\ [][NextDae]_vars

-----------------------------------------------------------------------------
(* The plotting process of multiplot.py: NBPlot and ProcessPlotter *)

InitPlot ==
    /\ scan = NoScan
    /\ IdleScan
    /\ phase = "plotter"
    /\ NoPoints
    /\ NoMonoids
    /\ NoPlot

\* NBPlot.__init__: the pipe is made and the plotting process started.
NewPlot ==
    /\ phase = "plotter"
    /\ plot.pc = "none"
    /\ plot' = [plot EXCEPT !.pc = "open"]
    /\ UNCHANGED <<scanvars, pointvars, monoidvars, pipe, plotter>>

\* ProcessPlotter.__call__, its first two statements, in the new process:
\*   self.pipe = pipe; threading.Timer(0.5, self.poll_draw).start()
PlotterCall ==
    /\ plot.pc # "none"
    /\ ~plotter.called
    /\ plotter' = [plotter EXCEPT !.called = TRUE, !.timer = "armed"]
    /\ UNCHANGED <<scanvars, pointvars, monoidvars, pipe, plot>>

\* ProcessPlotter.__call__, its third statement, while the timer runs in
\* its own thread: self.fig, self.axis = plt.subplots()
Subplots ==
    /\ plotter.called
    /\ plotter.axis = "None"
    /\ plotter' = [plotter EXCEPT !.fig = "fig", !.axis = "axis"]
    /\ UNCHANGED <<scanvars, pointvars, monoidvars, pipe, plot>>

\* The timer's half second is over: poll_draw starts in the timer's thread.
TimerFires ==
    /\ plotter.timer = "armed"
    /\ plotter' = [plotter EXCEPT !.timer = "running"]
    /\ UNCHANGED <<scanvars, pointvars, monoidvars, pipe, plot>>

\* poll_draw, one turn of its loop with a message in the pipe:
\*   command = self.pipe.recv()
\*   None: del self.fig; self.pipe.send((self.x, self.y)); return None
\*   "clf": self.axis.cla()
\*   a method of the axis, or else of the figure: it is called
\* An attribute of None that does not exist raises AttributeError, which
\* ends the timer's thread.
PollCommand ==
    /\ plotter.timer = "running"
    /\ pipe.down # <<>>
    /\ LET cmd == Head(pipe.down)
       IN  IF cmd = Shutdown
           THEN /\ plotter' = [plotter EXCEPT !.fig = "deleted", !.timer = "returned"]
                /\ pipe' = [pipe EXCEPT !.down = Tail(@), !.up = Append(@, [x |-> <<>>, y |-> <<>>])]
           ELSE /\ pipe' = [pipe EXCEPT !.down = Tail(@)]
                /\ IF cmd.name = "clf"
                   THEN IF plotter.axis = "None"
                        THEN plotter' = [plotter EXCEPT !.timer = "dead",
                                                        !.exc = "AttributeError"]
                        ELSE plotter' = [plotter EXCEPT
                                            !.applied = Append(@, <<"axis", "cla">>)]
                   ELSE IF plotter.axis = "axis" /\ cmd.name \in AxisMethods
                   THEN plotter' = [plotter EXCEPT
                                       !.applied = Append(@, <<"axis", cmd.name>>)]
                   ELSE IF plotter.fig = "fig" /\ cmd.name \in FigureMethods
                   THEN plotter' = [plotter EXCEPT
                                       !.applied = Append(@, <<"fig", cmd.name>>)]
                   ELSE plotter' = plotter
    /\ UNCHANGED <<scanvars, pointvars, monoidvars, plot>>

\* poll_draw with nothing in the pipe: the loop is left,
\*   self.fig.canvas.draw(); self.fig.canvas.show()
\*   threading.Timer(0.5, self.poll_draw).start()
PollDraw ==
    /\ plotter.timer = "running"
    /\ pipe.down = <<>>
    /\ IF plotter.fig = "None"
       THEN plotter' = [plotter EXCEPT !.timer = "dead", !.exc = "AttributeError"]
       ELSE plotter' = [plotter EXCEPT !.timer = "armed"]
    /\ UNCHANGED <<scanvars, pointvars, monoidvars, pipe, plot>>

\* plot.name(*args, **kwargs): NBPlot.__getattr__'s wrapper sends the
\* command and returns.
Send ==
    \E name \in CommandNames :
        /\ plot.pc = "open"
        /\ Len(plot.sent) < MaxCommands
        /\ pipe' = [pipe EXCEPT !.down = Append(@, Command(name))]
        /\ plot' = [plot EXCEPT !.sent = Append(@, name)]
        /\ UNCHANGED <<scanvars, pointvars, monoidvars, plotter>>

\* NBPlot.join, its first statement, self.plot_pipe.send(None); __del__
\* calls join once more.  A closed connection refuses to send.
Join ==
    /\ plot.pc \in {"open", "joined"}
    /\ plot.joins < 2
    /\ IF pipe.closed
       THEN /\ plot' = [plot EXCEPT !.pc = "failed", !.exc = "IOError"]
            /\ pipe' = pipe
       ELSE /\ plot' = [plot EXCEPT !.pc = "recv"]
            /\ pipe' = [pipe EXCEPT !.down = Append(@, Shutdown)]
    /\ UNCHANGED <<scanvars, pointvars, monoidvars, plotter>>

\* NBPlot.join, the rest, once there is an answer to receive:
\*   result = self.plot_pipe.recv(); self.plot_pipe.close(); return result
JoinReturn ==
    /\ plot.pc = "recv"
    /\ pipe.up # <<>>
    /\ plot' = [plot EXCEPT !.pc = "joined", !.joins = @ + 1,
                            !.result = Head(pipe.up)]
    /\ pipe' = [pipe EXCEPT !.up = Tail(@), !.closed = TRUE]
    /\ UNCHANGED <<scanvars, pointvars, monoidvars, plotter>>

NextPlot ==
    \/ NewPlot \/ PlotterCall \/ Subplots \/ TimerFires \/ PollCommand
    \/ PollDraw \/ Send \/ Join \/ JoinReturn

SpecPlot == InitPlot /\ [][NextPlot]_vars

\* The operating system runs the plotting process, the timer fires half a
\* second after it is started, and a receive returns once there is a
\* message: each step of the plotter and the return of join is taken if it
\* stays possible.  When the scan loop sends or joins is up to its caller.
SpecPlotLive ==
    /\ SpecPlot
    /\ WF_vars(PlotterCall) /\ WF_vars(Subplots) /\ WF_vars(TimerFires)
    /\ WF_vars(PollCommand) /\ WF_vars(PollDraw) /\ WF_vars(JoinReturn)

-----------------------------------------------------------------------------
(* Monoid expressions: a running total over three monoids *)

\* Most statements executed on the running total after it is seeded.
MaxStatements == 2

\* The monoids x, y and z are drawn from, type by type.
Sums == {Sum(n) : n \in 0..2}
Averages == {Average(0, 0), Average(1, 1), Average(3, 2)}
\* Polarisations of plain counts, and of Averages as pol_measure makes them.
CountPolarisations ==
    {Polarisation(Num(u), Num(d)) : u \in 0..3, d \in 0..3}
    \cup {Polarisation(Num(150), Num(50))}
AveragePolarisations ==
    {Polarisation(Average(3, 1), Average(1, 1)),
     Polarisation(Average(0, 1), Average(0, 1))}
SomePolarisations ==
    {Polarisation(Num(0), Num(0)), Polarisation(Num(3), Num(1)),
     Polarisation(Num(1), Num(2))}
MonoidLists ==
    {MonoidList(<<Sum(1)>>), MonoidList(<<Average(1, 1)>>),
     MonoidList(<<Sum(2), Average(3, 2)>>),
     MonoidList(<<Polarisation(Num(3), Num(1))>>)}

\* x, y and z: three monoids of one type.
Triples ==
    (Sums \X Sums \X Sums) \cup (Averages \X Averages \X Averages)
    \cup (CountPolarisations \X SomePolarisations \X SomePolarisations)
    \cup (AveragePolarisations \X AveragePolarisations \X AveragePolarisations)
    \cup {<<m, m, m>> : m \in MonoidLists}

InitMonoid ==
    /\ orig \in Triples
    /\ mx = orig[1] /\ my = orig[2] /\ mz = orig[3]
    /\ total = Num(0)
    /\ expr = <<>>
    /\ alias = FALSE
    /\ mexc = "none"
    /\ scalar = None
    /\ uncert = "none"
    /\ NoPoints
    /\ NoPlot
    /\ scan = NoScan /\ b = NoScan /\ prev = NoScan
    /\ lastop = "none"
    /\ nops = 0
    /\ phase = "monoid"
    /\ err = "none"
    /\ lenres = LenOk(0)
    /\ mode = "none"
    /\ calib = 0
    /\ detkind = "float"
    /\ tokens = <<>>
    /\ pc = 1
    /\ stage = "iter"
    /\ instrument = [m \in Motors |-> 0]
    /\ lastread = 0
    /\ moves = <<>>
    /\ yielded = <<>>
    /\ x = <<>>
    /\ value = NoValue
    /\ ndet = 0
    /\ xs = <<>>
    /\ ys = <<>>
    /\ visits = <<>>
    /\ logfile = <<>>
    /\ values = <<>>
    /\ fit = NoValue
    /\ action_remainder = NoValue
    /\ returned = NoValue

\* What an operand is named by: x, y, z, x.zero(), or the literal 0.
Operands == {"x", "y", "z", "zero", "0"}

Operand(name) ==
    CASE name = "x" -> mx
      [] name = "y" -> my
      [] name = "z" -> mz
      [] name = "zero" -> Zero(mx)
      [] name = "0" -> Num(0)

Statement(op, name) == <<op, name>>

\* total = 0, total = x.zero(), total = x: the running total is seeded.
Seed ==
    \E name \in {"0", "zero", "x"} :
        /\ phase = "monoid"
        /\ expr = <<>>
        /\ total' = Operand(name)
        /\ alias' = (name = "x")
        /\ expr' = <<Statement("=", name)>>
        /\ UNCHANGED <<scanvars, pointvars, plotvars, mx, my, mz, orig, mexc, scalar, uncert>>

\* A statement can be executed on the running total.
Ready ==
    /\ phase = "monoid"
    /\ expr # <<>>
    /\ mexc = "none"
    /\ Len(expr) <= MaxStatements

\* The statement left the object `self` behind and returned or raised ret.
Executed(op, name, eff) ==
    /\ expr' = Append(expr, Statement(op, name))
    /\ IF IsExc(eff.ret)
       THEN /\ mexc' = eff.ret.err
            /\ total' = IF op = "+=" \/ alias THEN eff.self ELSE total
            /\ alias' = alias
       ELSE /\ mexc' = mexc
            /\ total' = eff.ret
            /\ alias' = (alias /\ op = "+=" /\ total.type # "int")
    /\ mx' = IF alias THEN eff.self ELSE mx
    /\ UNCHANGED <<scanvars, pointvars, plotvars, my, mz, orig, scalar, uncert>>

\* total = total + v
DoPlus ==
    \E name \in Operands :
        /\ Ready
        /\ Executed("+", name, AddEffect(total, Operand(name)))

\* total += v
DoIAdd ==
    \E name \in Operands :
        /\ Ready
        /\ Executed("+=", name, IAddEffect(total, Operand(name)))

\* float(total) and total.err() of a Polarisation, as plotting takes them
\* (ListOfMonoids.values, ListOfMonoids.err).
DoFloat ==
    /\ phase = "monoid"
    /\ expr # <<>>
    /\ mexc = "none"
    /\ total.type = "Polarisation"
    /\ scalar' = Some(Float(total))
    /\ uncert' = PolarisationErr(total)
    /\ phase' = "measured"
    /\ UNCHANGED <<pointvars, plotvars, mx, my, mz, orig, total, expr, alias, mexc,
                   scan, b, prev, lastop, nops, err, lenres, setup, pc, stage,
                   hardware, yielded, x, value, ndet, plotted>>

NextMonoid == Seed \/ DoPlus \/ DoIAdd \/ DoFloat

SpecMonoid == InitMonoid /\ [][NextMonoid]_vars

-----------------------------------------------------------------------------
(* Helpers of the properties *)

\* The shape of a scan: its tree of variants with the motion of each leaf.
RECURSIVE Shape(_)
Shape(s) ==
    CASE s.kind = "Simple" -> <<"Simple", s.action>>
      [] s.kind = "Sum" -> <<"Sum", Shape(s.first), Shape(s.second)>>
      [] s.kind = "Product" -> <<"Product", Shape(s.outer), Shape(s.inner)>>
      [] s.kind = "Parallel" -> <<"Parallel", Shape(s.first), Shape(s.second)>>
      [] s.kind = "Forever" -> <<"Forever", Shape(s.scan)>>

NoDuplicates(seq) == \A i, j \in DOMAIN seq : seq[i] = seq[j] => i = j

\* The positions of a sequence of visits, each at its first visit.
RECURSIVE FirstVisits(_)
FirstVisits(vs) ==
    IF vs = <<>> THEN <<>>
    ELSE LET before == FirstVisits(SubSeq(vs, 1, Len(vs) - 1))
             p == vs[Len(vs)].pos
         IN  IF p \in Range(before) THEN before ELSE Append(before, p)

\* The combination (+) of the measurements of the visits to position p.
RECURSIVE CombinedAt(_, _)
CombinedAt(vs, p) ==
    IF vs = <<>> THEN <<>>
    ELSE LET before == CombinedAt(SubSeq(vs, 1, Len(vs) - 1), p)
             v == vs[Len(vs)]
         IN  IF v.pos # p THEN before
             ELSE IF before = <<>> THEN <<v.val>>
             ELSE <<Add(before[1], v.val)>>

MovesOn(motor) == Cardinality({k \in DOMAIN moves : moves[k][1] = motor})

Started == phase \in {"run", "done"}

C2_RecordIsCommandedPoint ==
    (Started /\ scan.kind = "Simple") =>
        /\ \A k \in DOMAIN yielded :
              /\ k <= Len(moves)
              /\ moves[k] = <<scan.action, scan.values[k]>>
              /\ yielded[k] = << Item(scan.name, scan.values[k]) >>
        /\ phase = "done" => Len(yielded) = Len(scan.values)

SimpleProduct(s) ==
    /\ s.kind = "Product"
    /\ s.outer.kind = "Simple" /\ s.inner.kind = "Simple"
    /\ s.outer.action # s.inner.action

\* C3: iterating a ProductScan yields, for each record of outer in order,
\* every record of inner in order merged with it (inner varies fastest), and
\* len(outer) * len(inner) records in all; over two axes the k-th record
\* holds outer's point (k-1) div n and inner's point (k-1) mod n.
C3_ProductOrder ==
    (Started /\ scan.kind = "Product" /\ ~HasOneshot(scan)) =>
        LET outer == Records(scan.outer, calib)
            inner == Records(scan.inner, calib)
            n == Len(inner)
        IN  /\ Len(yielded) <= Len(outer) * n
            /\ phase = "done" => Len(yielded) = Len(outer) * n
            /\ \A k \in DOMAIN yielded :
                  /\ yielded[k] = merge_dicts(outer[((k - 1) \div n) + 1],
                                              inner[((k - 1) % n) + 1])
                  /\ SimpleProduct(scan) =>
                        yielded[k] =
                          << Item(scan.outer.name,
                                  Reported(scan.outer.values[((k - 1) \div n) + 1], calib)),
                             Item(scan.inner.name,
                                  Reported(scan.inner.values[((k - 1) % n) + 1], calib)) >>

C3_Witness ==
    /\ phase = "done"
    /\ SimpleProduct(scan)
    /\ Len(scan.outer.values) = 2 /\ Len(scan.inner.values) = 2
    /\ Len(yielded) = 4

SimpleParallel(s) ==
    /\ s.kind = "Parallel"
    /\ s.first.kind = "Simple" /\ s.second.kind = "Simple"
    /\ s.first.action # s.second.action
    /\ ~HasOneshot(s)

\* C4 (as claimed): iterating ParallelScan(a, b) to the end yields
\* min(len(a), len(b)) records, the i-th the merge of a's and b's i-th, and
\* each sub-scan gets exactly one motion command per record yielded.
C4_LockStep ==
    (phase = "done" /\ SimpleParallel(scan)) =>
        /\ Len(yielded) = Min(Len(scan.first.values), Len(scan.second.values))
        /\ \A k \in DOMAIN yielded :
              yielded[k] = merge_dicts(Records(scan.first, calib)[k],
                                       Records(scan.second, calib)[k])
        /\ MovesOn(scan.first.action) = Len(yielded)
        /\ MovesOn(scan.second.action) = Len(yielded)

\* C5: len(a + b) = len(a) + len(b), len(a * b) = len(a) * len(b) and
\* len(a & b) = min(len(a), len(b)) for finite scans a and b.
C5_LengthLaws ==
    (phase = "asked" /\ ~HasOneshot(scan)) =>
        /\ lastop = "add" => lenres = LenOk(ScanLen(prev).val + ScanLen(b).val)
        /\ lastop = "mul" => lenres = LenOk(ScanLen(prev).val * ScanLen(b).val)
        /\ lastop = "and" => lenres = LenOk(Min(ScanLen(prev).val, ScanLen(b).val))
        /\ lastop = "and_back" => lenres = LenOk(2 * ScanLen(prev).val)
        /\ lastop = "none" => lenres = LenOk(Len(scan.values))

C5_Witness ==
    /\ phase = "asked"
    /\ lastop = "and"
    /\ prev.kind = "Sum"
    /\ ScanLen(prev).val = 3
    /\ lenres = LenOk(1)

Reversible(s) == IsFinite(s) /\ ~HasOneshot(s)

\* C6: a.reverse.reverse yields the same records as a, in the same order
\* (scan is prev.reverse here, so scan.reverse is prev.reverse.reverse).
C6_ReverseInvolution ==
    (phase = "build" /\ lastop = "reverse" /\ Reversible(prev)) =>
        \A c \in Calibs : Records(Reverse(scan), c) = Records(prev, c)

C6_Witness ==
    /\ phase = "build" /\ lastop = "reverse"
    /\ prev.kind = "Parallel"
    /\ ScanLen(prev.first).val = 2 /\ ScanLen(prev.second).val = 1

\* C7 (as claimed): s.reverse yields the records of s in the opposite
\* order, for all four variants and sub-scans of any lengths.
C7_ReverseOrder ==
    (phase = "build" /\ lastop = "reverse" /\ Reversible(prev)) =>
        \A c \in Calibs : Records(scan, c) = ReverseSeq(Records(prev, c))

\* C8: the execution loop over s.and_back, s a SimpleScan of n distinct
\* points, visits 2n positions (s forwards, then backwards) and ends with n
\* entries in s's forward order, each the combination of the two
\* measurements taken there: the i-th and the (2n+1-i)-th.
C8_AndBackFolds ==
    (phase = "done" /\ mode = "plot" /\ lastop = "and_back" /\ nops = 1) =>
        LET n == Len(prev.values)
            meas(k) == Promote(DetectorValue(detkind, k))
        IN  /\ Len(yielded) = 2 * n
            /\ moves = [k \in 1..(2 * n) |->
                          <<prev.action,
                            IF k <= n THEN prev.values[k] ELSE prev.values[2 * n + 1 - k]>>]
            /\ xs = [i \in 1..n |-> Reported(prev.values[i], calib)]
            /\ ys = [i \in 1..n |-> Add(meas(i), meas(2 * n + 1 - i))]

C8_Witness ==
    /\ phase = "done" /\ mode = "plot" /\ lastop = "and_back" /\ nops = 1
    /\ calib = 0
    /\ detkind = "float"
    /\ xs = <<0, 1>>
    /\ ys = << Average(1 + 8, 2), Average(2 + 4, 2) >>

\* C9: len() of a forever scan never returns a number (it raises, at the
\* call); iterating it never ends on its own, and its k-th record (from 0)
\* is the underlying scan's record k mod n.
C9_ForeverUnbounded ==
    scan.kind = "Forever" =>
        /\ phase # "asked"
        /\ phase # "done"
        /\ (phase = "error" /\ lenres.err # "none") =>
              (lenres.err = "RuntimeError" /\ err = "RuntimeError")
        /\ Started =>
              LET base == Records(scan.scan, calib)
              IN  \A k \in DOMAIN yielded :
                      yielded[k] = base[((k - 1) % Len(base)) + 1]

C9_Witness ==
    /\ scan.kind = "Forever"
    /\ Started
    /\ mode = "plot"
    /\ Len(Records(scan.scan, calib)) = 2
    /\ Len(yielded) = MaxYield

\* The points of the leaves of a scan, left to right.
RECURSIVE LeafValues(_)
LeafValues(s) ==
    CASE s.kind = "Simple" -> <<s.values>>
      [] s.kind = "Sum" -> LeafValues(s.first) \o LeafValues(s.second)
      [] s.kind = "Product" -> LeafValues(s.outer) \o LeafValues(s.inner)
      [] s.kind = "Parallel" -> LeafValues(s.first) \o LeafValues(s.second)
      [] s.kind = "Forever" -> LeafValues(s.scan)

\* C10 (as claimed): s.map(f) has the shape, the motions, the defaults
\* object and the length of s, holds f of every point of s, and can be
\* asked its len and its reverse.
C10_MapKeepsShape ==
    (phase = "build" /\ lastop = "map" /\ IsFinite(prev) /\ ~HasOneshot(prev)) =>
        /\ Shape(scan) = Shape(prev)
        /\ \E f \in Funcs :
              LeafValues(scan) = [i \in DOMAIN LeafValues(prev) |->
                                     MapSeq(f, LeafValues(prev)[i])]
        /\ scan.defaults = prev.defaults
        /\ ScanLen(scan) = ScanLen(prev)
        /\ ~IsError(Reverse(scan))

-----------------------------------------------------------------------------
(* Properties of point generation *)

\* The start and stop a call asks for, relative offsets resolved.
StartOf == IF Given(kwargs.before) THEN Some(Val(current) + Val(kwargs.before))
           ELSE kwargs.start
StopOf == IF Given(kwargs.after) THEN Some(Val(current) + Val(kwargs.after))
          ELSE kwargs.stop

\* scan(...) has returned or raised.
Called == Given(points)
Returned == Called /\ Val(points).err = "none"
Points == Val(points).val

EvenlySpaced(seq) ==
    \A i \in 2..(Len(seq) - 1) :
        RatSub(seq[i + 1], seq[i]) = RatSub(seq[i], seq[i - 1])

\* The call gives start, stop and stride (and no explicit list).
StrideForm ==
    /\ ~Given(kwargs.exact)
    /\ Given(StartOf) /\ Given(StopOf)
    /\ Given(kwargs.stride)

\* C11: with start, stop and stride, get_points returns evenly spaced points
\* from start to stop, both included, for ascending and descending ranges;
\* start=0, stop=10, stride=3 gives 4 points; the scan built this way runs
\* to completion (no exception when it is made or iterated).
C11_StrideCoversRange ==
    (Called /\ StrideForm) =>
        /\ Returned
        /\ Len(Points) >= 1
        /\ Points[1] = Whole(Val(StartOf))
        /\ Points[Len(Points)] = Whole(Val(StopOf))
        /\ EvenlySpaced(Points)
        /\ (StartOf = Some(0) /\ StopOf = Some(10) /\ kwargs.stride = Some(3))
              => Len(Points) = 4
        /\ phase # "error"

\* The point count a call asks for, a gap count resolved.
CountOf == IF Truthy(kwargs.gaps) THEN Some(Val(kwargs.gaps) + 1) ELSE kwargs.count

\* The call gives start, stop and step, and neither stride nor a count
\* (nor an explicit list).
StepForm ==
    /\ ~Given(kwargs.exact)
    /\ Given(StartOf) /\ Given(StopOf)
    /\ Given(kwargs.step)
    /\ ~Given(kwargs.stride) /\ ~Given(kwargs.count) /\ ~Given(kwargs.gaps)

\* stop lies a whole number of steps after start.
ExactMultiple ==
    /\ (Val(StopOf) - Val(StartOf)) * Val(kwargs.step) >= 0
    /\ (Val(StopOf) - Val(StartOf)) % Abs(Val(kwargs.step)) = 0

\* C12: with start, stop and step, get_points returns start, start + step,
\* ... up to stop: stop is the last point when it lies a whole number of
\* steps from start, and is left out (the last point being less than a step
\* short of it) when it does not.
C12_FixedStep ==
    (Called /\ StepForm) =>
        /\ Returned
        /\ \A i \in DOMAIN Points : Points[i] = Whole(Val(StartOf) + (i - 1) * Val(kwargs.step))
        /\ ExactMultiple =>
              (Len(Points) >= 1 /\ Points[Len(Points)] = Whole(Val(StopOf)))
        /\ (~ExactMultiple /\ (Val(StopOf) - Val(StartOf)) * Val(kwargs.step) > 0) =>
              /\ Len(Points) >= 1
              /\ Abs(Val(StopOf) - Points[Len(Points)][1]) < Abs(Val(kwargs.step))
              /\ \A i \in DOMAIN Points : Points[i] # Whole(Val(StopOf))

\* The call gives start, stop and count, and neither stride nor gaps (nor
\* an explicit list).
CountForm ==
    /\ ~Given(kwargs.exact)
    /\ Given(StartOf) /\ Given(StopOf)
    /\ Given(kwargs.count) /\ Val(kwargs.count) >= 1
    /\ ~Given(kwargs.stride) /\ ~Given(kwargs.gaps)

\* C13: with start, stop and count (no stride), get_points returns exactly
\* count evenly spaced points, the first being start and, from two points
\* on, the last being stop; start=0, stop=10, count=5 gives
\* [0, 2.5, 5, 7.5, 10].
C13_CountPoints ==
    (Called /\ CountForm) =>
        /\ Returned
        /\ Len(Points) = Val(kwargs.count)
        /\ Points[1] = Whole(Val(StartOf))
        /\ Val(kwargs.count) >= 2 => Points[Len(Points)] = Whole(Val(StopOf))
        /\ EvenlySpaced(Points)
        /\ (StartOf = Some(0) /\ StopOf = Some(10) /\ kwargs.count = Some(5)) =>
              Points = <<Whole(0), <<5, 2>>, Whole(5), <<15, 2>>, Whole(10)>>

C13_Witness ==
    /\ Called /\ CountForm
    /\ kwargs.start = Some(0) /\ kwargs.stop = Some(10) /\ kwargs.count = Some(5)
    /\ ~Given(kwargs.before) /\ ~Given(kwargs.after)
    /\ Points = <<Whole(0), <<5, 2>>, Whole(5), <<15, 2>>, Whole(10)>>
    /\ phase = "done"
    /\ Len(yielded) = 5

\* The keyword arguments of the call with count = gaps + 1 in place of gaps.
AsCount == [kwargs EXCEPT !.gaps = None, !.count = Some(Val(kwargs.gaps) + 1)]

\* C14: for every gap count g >= 0, get_points given gaps=g returns what it
\* returns given count=g+1, all other inputs being equal.
C14_GapsIsCountPlusOne ==
    (Called /\ Given(kwargs.gaps) /\ ~Given(kwargs.count)) =>
        Val(points) = get_points(Val(current), AsCount, numpy = "strict")

\* The call gives a number of points: a count, or a gap count.
CountGiven == Given(kwargs.count) \/ Given(kwargs.gaps)

\* The call gives one of the usable sets of options: an explicit list;
\* start, stop and one of stride, count, step; start, count and a spacing.
Determined ==
    \/ Given(kwargs.exact)
    \/ /\ Given(StartOf) /\ Given(StopOf)
       /\ (Given(kwargs.stride) \/ CountGiven \/ Given(kwargs.step))
    \/ /\ Given(StartOf) /\ CountGiven
       /\ (Given(kwargs.stride) \/ Given(kwargs.step))

\* C15: a call whose options are none of the usable sets fails when the scan
\* is made, with the error get_points raises for an unusable set of options
\* (a RuntimeError): no point sequence is returned, no SimpleScan is made, no
\* motion command is issued; and no error is raised once a scan is iterated.
C15_UnderDeterminedFails ==
    /\ (Called /\ ~Determined) =>
          /\ Val(points) = PointsErr("RuntimeError")
          /\ phase = "error" /\ err = "RuntimeError"
          /\ scan = NoScan
          /\ moves = <<>> /\ yielded = <<>>
    /\ (phase = "error") => (scan = NoScan /\ moves = <<>> /\ tokens = <<>>)
    /\ Returned => scan.values = [i \in DOMAIN Points |-> ToPosition(Points[i])]

C15_Witness ==
    /\ Called /\ ~Determined
    /\ kwargs.start = Some(0) /\ kwargs.step = Some(3) /\ ~Given(kwargs.stop)
    /\ phase = "error"

\* The call gives more than a usable set of options: start, stop, count and
\* step; start, stop, stride and count; or both start and before.
OverDetermined ==
    /\ ~Given(kwargs.exact)
    /\ \/ /\ Given(kwargs.start) /\ Given(kwargs.stop)
          /\ Given(kwargs.count) /\ Given(kwargs.step)
       \/ /\ Given(kwargs.start) /\ Given(kwargs.stop)
          /\ Given(kwargs.stride) /\ Given(kwargs.count)
       \/ Given(kwargs.start) /\ Given(kwargs.before)

\* C16: a call with over-determined options fails when the scan is made:
\* get_points raises and no scan is made.
C16_OverDeterminedFails ==
    (Called /\ OverDetermined) =>
        /\ ~Returned
        /\ phase = "error"
        /\ scan = NoScan

-----------------------------------------------------------------------------
(* Properties of the monoids *)

\* The statements that evaluate a + b into total.
Evaluated(a, bb) == expr = <<Statement("=", a), Statement("+", bb)>>

\* total is a monoid of the type of x with the scalar value(s) of m.
SameAs(m) ==
    /\ mexc = "none"
    /\ total.type = mx.type
    /\ Scalars(total) = Scalars(m)

\* C17: for every x of each Monoid type (Sum, Average, Polarisation,
\* MonoidList), x + x.zero() and x.zero() + x both evaluate to a monoid of
\* the type of x with the scalar value(s) of x.
C17_ZeroIsIdentity ==
    /\ Evaluated("x", "zero") => SameAs(orig[1])
    /\ Evaluated("zero", "x") => SameAs(orig[1])

\* Only = and + were executed: no statement so far is a +=.
OnlyPlus == \A i \in DOMAIN expr : expr[i][1] # "+="

EndedAs(ref) ==
    IF IsExc(ref) THEN mexc = ref.err
    ELSE mexc = "none" /\ total = ref

\* C19: for every Monoid type the literal 0 stands for zero(): x + 0 and
\* x += 0 give the value of x + x.zero(), and a running total seeded with
\* plain 0 (total = 0; total = total + x) ends as one seeded with x.zero().
C19_LiteralZero ==
    /\ Evaluated("x", "0") => EndedAs(Plus(orig[1], Zero(orig[1])))
    /\ expr = <<Statement("=", "x"), Statement("+=", "0")>> =>
          EndedAs(Plus(orig[1], Zero(orig[1])))
    /\ Evaluated("0", "x") => EndedAs(Plus(Zero(orig[1]), orig[1]))

\* The floats of the counts of the Polarisation measured.
Ups == Float(total.ups)
Downs == Float(total.downs)

\* C20: the scalar of a Polarisation of counts ups, downs >= 0 is
\* (ups - downs) / (ups + downs) when ups + downs is not 0 (0.5 for 150 and
\* 50); when ups + downs = 0 the scalar and err() are both 0, with no NaN
\* and no divide error; so too for Polarisation.zero() and for what is
\* accumulated onto it.
C20_PolarisationScalar ==
    phase = "measured" =>
        /\ IsNumber(Val(scalar))
        /\ RatAdd(Ups, Downs) # Whole(0) =>
              /\ Val(scalar)[1] * RatAdd(Ups, Downs)[1] * RatSub(Ups, Downs)[2]
                    = RatSub(Ups, Downs)[1] * Val(scalar)[2] * RatAdd(Ups, Downs)[2]
        /\ RatAdd(Ups, Downs) = Whole(0) =>
              (Val(scalar) = Whole(0) /\ uncert = "0.0")
        /\ total = Polarisation(Num(150), Num(50)) => Val(scalar) = <<1, 2>>

\* Polarisation.zero() has the scalar and the err() 0.
C20_Witness ==
    /\ phase = "measured"
    /\ expr = <<Statement("=", "zero")>>
    /\ total = Polarisation(Num(0), Num(0))
    /\ Val(scalar) = Whole(0)
    /\ uncert = "0.0"

-----------------------------------------------------------------------------
(* Properties of the log file and of the order of the steps *)

\* The accumulator of position p after the first k visits were folded in.
AccumulatedAt(k, p) == CombinedAt(SubSeq(visits, 1, k), p)[1]

\* C29 (as claimed): each step of Scan.plot appends exactly one line to the
\* log file: the position visited in that step and the string of the monoid
\* accumulated at that position once the step's measurement is folded in, on
\* a first visit and on a revisit alike.
C29_LogLinePerStep ==
    (Started /\ mode = "plot" /\ stage = "iter") =>
        /\ Len(logfile) = Len(visits)
        /\ \A k \in DOMAIN logfile :
              logfile[k] = <<visits[k].pos, MonoidStr(AccumulatedAt(k, visits[k].pos))>>

\* A motion command of the pass under way is issued and not yet awaited.
Pending ==
    \E k \in 1..(pc - 1) :
        /\ tokens[k].t = "move"
        /\ \A j \in (k + 1)..(pc - 1) : tokens[j].t # "wait"

Plotting == phase = "run" /\ mode \in {"plot", "plot2d"}

\* C25: the steps of the loop of plot do not overlap.  A motion command is
\* issued only when every record yielded so far has been measured and its
\* measurement folded in; the detector is asked only after every motion
\* command of the step was awaited and the step's record was yielded, with
\* every earlier measurement folded; and a measurement is folded only once
\* it was taken: for Simple, Sum, Product and Parallel scans.
C25_StepsInOrder ==
    [][Plotting =>
          /\ moves' # moves =>
                (stage = "iter" /\ ndet = Len(yielded) /\ Len(visits) = Len(yielded))
          /\ ndet' # ndet =>
                (~Pending /\ Len(yielded) = ndet + 1 /\ Len(visits) = ndet)
          /\ visits' # visits =>
                (ndet = Len(visits) + 1 /\ ndet = Len(yielded) /\ moves' = moves)]_vars

\* The second step of a parallel scan is about to be measured: both motors
\* were sent and awaited twice, the first measurement is folded in.
C25_Witness ==
    /\ Plotting
    /\ scan.kind = "Parallel"
    /\ stage = "detect"
    /\ ~Pending
    /\ Len(moves) = 4
    /\ ndet = 1
    /\ Len(visits) = 1

-----------------------------------------------------------------------------
(* Properties of the interrupt *)

\* C21 (as claimed): when a KeyboardInterrupt arrives in the loop of
\* Scan.plot, plot raises nothing, no motion command and no measurement is
\* issued after it, and what was accumulated stays as it is and is
\* consistent: as many accumulators as positions, the positions those of the
\* first visits, each accumulator the combination of the measurements taken
\* at its position.
C21_InterruptKeepsState ==
    /\ [](phase = "stopped" =>
            /\ err = "none"
            /\ Len(xs) = Len(ys)
            /\ xs = FirstVisits(visits)
            /\ \A i \in DOMAIN ys : <<ys[i]>> = CombinedAt(visits, xs[i]))
    /\ [][phase = "stopped" =>
            (phase' = "stopped" /\ moves' = moves /\ ndet' = ndet /\ xs' = xs /\ ys' = ys)]_vars

-----------------------------------------------------------------------------
(* Properties of the fit *)

Fitting == fit # NoValue /\ mode = "plot"

\* A measurement is about to be folded in and the action called.
AboutToFit == Fitting /\ phase = "run" /\ stage = "fold"

\* The positions the action is then called with.
PositionsThen == Accumulate(xs, ys, Position(x), Promote(value)).xs

\* The step under way can end with self.fit having returned or raised o.
CanEndWith(o) ==
    IF o.exc = "none"
    THEN ENABLED (DoFold /\ phase' = "run"
                  /\ action_remainder' \in {o.ret, List([i \in 1..Channels |-> o.ret])})
    ELSE IF o.exc = "RuntimeError"
    THEN ENABLED (DoFold /\ phase' = "run"
                  /\ action_remainder' \in {NoValue, List([i \in 1..Channels |-> NoValue])})
    ELSE ENABLED (DoFold /\ phase' = "error" /\ err' = o.exc)

\* C22: while fewer than degree positions are accumulated the action returns
\* None, does not call the fit (nothing the fit could return or raise shows)
\* and raises nothing; from degree positions on every step calls the fit
\* (whatever it returns or raises is the outcome of the step).  With degree
\* 4, 3 points give no fit and 4 points give parameters.
C22_DegreeGate ==
    /\ (Fitting /\ phase \in {"run", "done", "stopped"} /\ Len(xs) < fit.degree) =>
          action_remainder = NoValue
    /\ (AboutToFit /\ Len(PositionsThen) < fit.degree) =>
          ~ENABLED (DoFold /\ (phase' = "error" \/ action_remainder' # NoValue))
    /\ (AboutToFit /\ Len(PositionsThen) >= fit.degree) =>
          \A o \in FitOutcomes(fit) : CanEndWith(o)
    /\ (AboutToFit /\ fit.degree = 4 /\ Len(PositionsThen) = 4) =>
          \E o \in FitOutcomes(fit) : o.exc = "none" /\ CanEndWith(o)

\* A Gaussian (degree 4) had no fit after 3 points and has parameters after
\* the fourth.
C22_Witness ==
    /\ Fitting /\ phase = "run" /\ stage = "iter"
    /\ fit = Gaussian
    /\ detkind = "float"
    /\ Len(xs) = 4
    /\ action_remainder = Array(<<Whole(1), Whole(2), Whole(3), Whole(4)>>)

\* C23 (as claimed): no failure of a fit attempt leaves the action, at any
\* step; the scan goes on to visit and measure every position; and Scan.fit
\* raises nothing, whichever step the fit failed at (the last one too) and
\* also when the scan has fewer points than the degree of the fit.
C23_FitFailureNotPropagated ==
    Fitting =>
        /\ phase # "error"
        /\ phase = "done" =>
              (Len(yielded) = Len(scan.values) /\ ndet = Len(scan.values))

\* The fits of the channels of the last step that did not fail.
ChannelFits == SelectSeq(action_remainder.list, IsNotNone)

\* Scan.fit is over for a scan of MonoidLists whose last step fitted at
\* least one channel.
ChannelsFitted ==
    /\ Fitting
    /\ detkind = "MonoidList"
    /\ phase = "fitted" \/ (phase = "error" /\ err = "IndexError")
    /\ action_remainder # NoValue
    /\ ChannelFits # <<>>

\* C28 (as claimed): for data accumulated as MonoidLists Scan.fit returns
\* the readable form of the parameter-wise median of the channel-wise fits
\* of the last step, a channel whose fit failed being left out, whichever
\* channel it is.
C28_MedianOverChannels ==
    ChannelsFitted =>
        /\ phase = "fitted"
        /\ returned = Readable(fit, MedianAxis0(ChannelFits)).ret

-----------------------------------------------------------------------------
(* Properties of the SPEC commands *)

Left == command # None /\ phase \in {"returned", "raised"}

\* Every point of the scan of the command was measured.
Completed == scan # NoScan /\ err = "none" /\ ndet = Len(scan.values)

-----------------------------------------------------------------------------
(* C30: the DAE periods of a polarisation scan *)

\* The set of the periods the k-th call of the detector function counted in.
PeriodsOf(k) == {dae.used[k][1], dae.used[k][2]}

PeriodsUsed == UNION {PeriodsOf(k) : k \in 1..Len(dae.used)}

\* pol_measure has been called for every point of the scan.
PolMeasured ==
    /\ phase = "made"
    /\ Val(manager).f = "pol_measure"
    /\ Len(scan.values) > 0
    /\ ndet = Len(scan.values)

\* C30: when pol_measure has been called for each of the n points of a scan,
\* the calls have counted in 2n pairwise distinct DAE periods, no period of
\* one point is a period of another point, and every period lies within the
\* nperiods = 2 * len(scan) that DaePeriods.__call__ reserved.
C30_DistinctPeriods ==
    PolMeasured =>
        /\ Cardinality(PeriodsUsed) = 2 * ndet
        /\ \A k \in 1..ndet : \A l \in 1..ndet :
               k # l => PeriodsOf(k) \cap PeriodsOf(l) = {}
        /\ dae.nperiods = 2 * Len(scan.values)
        /\ \A p \in PeriodsUsed : p <= dae.nperiods

-----------------------------------------------------------------------------
(* C26, C27: the plotting process as a sink, and its shutdown *)

\* The names of the commands still under way to the plotter.
RECURSIVE UnderWay(_)
UnderWay(msgs) ==
    IF msgs = <<>> THEN <<>>
    ELSE IF Head(msgs) = Shutdown THEN UnderWay(Tail(msgs))
    ELSE <<Head(msgs).name>> \o UnderWay(Tail(msgs))

\* The names of the commands the plotter has applied, in order; "clf" is
\* applied as the axis' cla.
CommandsApplied ==
    [i \in 1..Len(plotter.applied) |->
        IF plotter.applied[i] = <<"axis", "cla">> THEN "clf" ELSE plotter.applied[i][2]]

\* The plotter has taken the shutdown message out of the pipe.
ShutDown == plotter.timer = "returned"

\* C26: the commands the plotter has applied, followed by those still in the
\* pipe, are the commands the scan loop sent, in the order it sent them (no
\* command is lost or reordered, whenever the first poll fires); a send
\* leaves the scan loop free to go on; and the plotter, once started, polls
\* until it takes the shutdown message.
C26_WriteOnlySink ==
    /\ CommandsApplied \o UnderWay(pipe.down) = plot.sent
    /\ (plot.pc = "open" /\ Len(plot.sent) < MaxCommands) => ENABLED Send
    /\ plotter.called => (plotter.timer \in {"armed", "running"} \/ ShutDown)

\* C27: once join has sent the shutdown message it returns: the plotter
\* answers, once; and no join, the destructor's second one included, fails.
C27_JoinReturns ==
    /\ (plot.pc = "recv") ~> (plot.pc = "joined")
    /\ [](Len(pipe.up) <= 1)
    /\ [](plot.pc # "failed")
====
